---- MODULE Spec2Model ----
(***************************************************************************)
(* Segmented media delivery engine of the Telegram video bot:              *)
(*   - the handle resolver cache   (src/src/server.py, get_file_info_cached,*)
(*     clean_cache_if_needed),                                             *)
(*   - the range proxy             (src/src/server.py, stream_video,       *)
(*     parse_range_header, generate_etag),                                 *)
(*   - the segmenter               (src/src/splitter.py, split_video),     *)
(*   - the concatenation streamer  (src/src/server.py, stream_concat).     *)
(* The server is one asyncio event loop: a coroutine runs without          *)
(* interruption between two awaits, so every action below is the code      *)
(* between two suspension points.                                          *)
(***************************************************************************)
EXTENDS Integers, Sequences, FiniteSets, TLC

----------------------------------------------------------------------------
(* Bounds of the model *)

\* time.time() values run over 0..MaxClock
MaxClock == 5
\* at most this many getFile calls are sent to the content host in one run
MaxHostCalls == 4
\* at most this many /stream requests are served in one run
MaxRequests == 2

\* coroutines that may be inside get_file_info_cached / stream_video at once
Callers == {1, 2}

(* Program constants, scaled down: server.py sets 3600 s and 1000 entries *)
CACHE_TTL == 2
MAX_CACHE_SIZE == 2

----------------------------------------------------------------------------
(* File ids.  A file id is a string, here a sequence of characters; the    *)
(* resolver strips white space around it.                                  *)

SP == " "

\* Python's None passed as file_id
NoneId == <<"<None>">>

RECURSIVE LStrip(_)
LStrip(s) == IF s # <<>> /\ Head(s) = SP THEN LStrip(Tail(s)) ELSE s

RECURSIVE RStrip(_)
RStrip(s) == IF s # <<>> /\ s[Len(s)] = SP THEN RStrip(SubSeq(s, 1, Len(s) - 1)) ELSE s

\* file_id = str(file_id).strip() if file_id is not None else ""
NormalizeFileId(raw) == IF raw = NoneId THEN <<>> ELSE RStrip(LStrip(raw))

\* the handles the model resolves, after normalisation
Handles == {<<"a">>, <<"b">>, <<"c">>}

\* what callers pass as file_id
RawFileIds == Handles \cup {NoneId, <<SP, "a">>}

----------------------------------------------------------------------------
(* The content host.  getFile answers ok with a file_path and, usually, a  *)
(* file_size, or not ok with a description; the request can also fail on   *)
(* the network.                                                            *)

HostAnswers == {"ok", "not_found", "too_big", "network_error"}

\* data["result"]["file_path"], from which the download URL is built: the
\* host stores one blob per handle under one path
FilePathOf(h) == IF h = <<"a">> THEN 1 ELSE IF h = <<"b">> THEN 2 ELSE 3

\* Python's None as a file size
NoSize == 0 - 1

\* data["result"].get("file_size"): blobs are immutable, so the size the
\* host reports is a function of the handle; "b" has no size reported.
FileSizeOf(h) == IF h = <<"a">> THEN 4 ELSE IF h = <<"b">> THEN NoSize ELSE 6

NoEntry == [url |-> 0, size |-> NoSize, timestamp |-> 0 - 1]

VARIABLES
    clock,            \* last value returned by time.time()
    token,            \* os.getenv("TELEGRAM_BOT_TOKEN") is set
    file_info_cache,  \* server.file_info_cache: handle -> entry, NoEntry if absent
    pc,               \* per coroutine: where it is suspended
    req,              \* per coroutine: the arguments of its call
    now,              \* per coroutine: the local `now` of get_file_info_cached
    found,            \* per coroutine: what its cache lookup found ("absent", "expired")
    hostCalls,        \* number of getFile requests sent so far
    requests,         \* number of /stream requests received so far
    resp,             \* per coroutine: the HTTP response stream_video gave
    up,               \* per coroutine: the byte fetch iter_range / iter_file made upstream
    last,             \* history: what get_file_info_cached did in the latest step
    insertOrder,      \* history: the cached handles, least recently written first
    lastSweep,        \* history: what clean_cache_if_needed removed in the latest step
    streak,           \* history: the current run of back-to-back resolves of one handle
    overlap           \* history: per coroutine, the entry a resolve of the same handle wrote
                      \* while this one was waiting for getFile
    ,
    fs,               \* the downloads directory: path -> the video the file holds
    stack,            \* the activations of split_video, the outermost first
    call,             \* the arguments of the outermost split_video call
    out,              \* what the outermost split_video call returned or raised
    ran,              \* history: the subprocess started in the latest step
    spawned,          \* history: a subprocess was started since the outermost call began
    fs0,              \* history: the downloads directory when the outermost call began
    prev,             \* history: the outermost call before this one and its outcome
    hist              \* history: the encoder runs and re-splits of the outermost call
    ,
    cc,               \* stream_concat: where the coroutine is and its locals
    temp_dir,         \* the directory tempfile.mkdtemp() made for the request
    process,          \* the encoder process of the request
    cresp,            \* the HTTP response stream_concat gave
    chist             \* history: what the request has done so far
    ,
    lock_table,       \* the manifest lock of each asset: who holds it
    manifest_dir,     \* the manifest directory of each asset
    mreq,             \* per manifest request: where it is and what it was answered
    background        \* the background extension task of each asset
    ,
    queues,           \* QueueManager.queues: user -> the task ids waiting, oldest first
    tasks,            \* QueueManager.tasks: task id -> DownloadTask
    running_tasks,    \* QueueManager.running_tasks: user -> task id or None
    qhist             \* history: the tasks cancel_task was called on since they were added
    ,
    parsed            \* the latest call of parse_range_header: its arguments and result

serverVars == <<clock, token, file_info_cache, pc, req, now, found, hostCalls, requests, resp,
                up, last, insertOrder, lastSweep, streak, overlap>>
splitVars == <<fs, stack, call, out, ran, spawned, fs0, prev, hist>>
concatVars == <<cc, temp_dir, process, cresp, chist>>
manifestVars == <<lock_table, manifest_dir, mreq, background>>
queueVars == <<queues, tasks, running_tasks, qhist>>
parseVars == <<parsed>>
vars == <<serverVars, splitVars, concatVars, manifestVars, queueVars, parseVars>>

CachedKeys(cache) == {h \in Handles : cache[h] # NoEntry}

\* clean_cache_if_needed: the keys that survive.  sorted(..., reverse=True)
\* by timestamp, first MAX_CACHE_SIZE kept.  Every timestamp is the `now` of
\* a different resolve, so the order is total.
KeptKeys(cache) ==
    IF Cardinality(CachedKeys(cache)) > MAX_CACHE_SIZE
    THEN {h \in CachedKeys(cache) :
            Cardinality({g \in CachedKeys(cache) :
                           cache[g].timestamp > cache[h].timestamp}) < MAX_CACHE_SIZE}
    ELSE CachedKeys(cache)

\* a sweep that sorts and keeps everything
clean_cache_if_needed_NoTruncate(cache) ==
    [h \in Handles |-> IF h \in CachedKeys(cache) THEN cache[h] ELSE NoEntry]

clean_cache_if_needed(cache) ==
    [h \in Handles |-> IF h \in KeptKeys(cache) THEN cache[h] ELSE NoEntry]

\* What get_file_info_cached did for caller c in the latest step: "sent" the
\* getFile request and suspended, "return"ed (url, size), or "raise"d.
\* hit: the tuple came from the cache.  ts: the call's `now`.  stale: the
\* lookup had found an expired entry.  status 0: an httpx exception.
\* calls: the getFile requests the call has sent.
Event(c, what, file_id, url, size, status, hit, ts, stale, calls) ==
    [caller |-> c, what |-> what, file_id |-> file_id, url |-> url, size |-> size,
     status |-> status, hit |-> hit, ts |-> ts, stale |-> stale, calls |-> calls]
NoEvent == Event(0, "none", <<>>, 0, NoSize, 0, FALSE, 0, FALSE, 0)

\* the freshness test with the comparison turned around
IsFresh_Reversed(entry, t) == entry # NoEntry /\ t - entry.timestamp > CACHE_TTL

\* now - cached.get("timestamp", 0) < CACHE_TTL
IsFresh(entry, t) == entry # NoEntry /\ t - entry.timestamp < CACHE_TTL


----------------------------------------------------------------------------
(* Range proxy: pure helpers                                               *)

BYTES == <<"b", "y", "t", "e", "s", "=">>
Digits == {"0", "1", "2", "3", "4", "5", "6", "7", "8", "9"}

DigitValue(ch) ==
    CASE ch = "0" -> 0 [] ch = "1" -> 1 [] ch = "2" -> 2 [] ch = "3" -> 3
      [] ch = "4" -> 4 [] ch = "5" -> 5 [] ch = "6" -> 6 [] ch = "7" -> 7
      [] ch = "8" -> 8 [] ch = "9" -> 9

\* int(match.group(k)) of a run of decimal digits
RECURSIVE ToInt(_)
ToInt(ds) == IF ds = <<>> THEN 0
             ELSE 10 * ToInt(SubSeq(ds, 1, Len(ds) - 1)) + DigitValue(ds[Len(ds)])

\* \d+ and \d* are greedy: the longest run of digits at the front of s
RECURSIVE DigitRun(_)
DigitRun(s) == IF s # <<>> /\ Head(s) \in Digits THEN <<Head(s)>> \o DigitRun(Tail(s))
               ELSE <<>>

Drop(s, n) == SubSeq(s, n + 1, Len(s))
StartsWith(s, p) == Len(s) >= Len(p) /\ SubSeq(s, 1, Len(p)) = p

NoRange == <<>>

\* re.match(r'bytes=(\d+)-(\d*)', range_header): anchored at the start only.
\* The groups <<group(1), group(2)>>, or <<>> when there is no match.
RangeMatch(h) ==
    IF ~StartsWith(h, BYTES) THEN <<>>
    ELSE LET a == DigitRun(Drop(h, Len(BYTES)))
             r == Drop(h, Len(BYTES) + Len(a))
         IN IF a = <<>> \/ r = <<>> \/ Head(r) # "-" THEN <<>>
            ELSE <<a, DigitRun(Tail(r))>>

\* parse_range_header without `if end >= file_size: end = file_size - 1`
parse_range_header_NoClamp(range_header, file_size) ==
    IF range_header = <<>> THEN NoRange
    ELSE LET m == RangeMatch(range_header) IN
         IF m = <<>> THEN NoRange
         ELSE LET start == ToInt(m[1])
                  end == IF m[2] # <<>> THEN ToInt(m[2]) ELSE file_size - 1
              IN IF start < 0 \/ start >= file_size THEN NoRange
                 ELSE IF start > end THEN NoRange
                 ELSE <<start, end>>

\* parse_range_header(range_header, file_size): <<start, end>> or NoRange (None)
parse_range_header(range_header, file_size) ==
    IF range_header = <<>> THEN NoRange
    ELSE LET m == RangeMatch(range_header) IN
         IF m = <<>> THEN NoRange
         ELSE LET start == ToInt(m[1])
                  end0 == IF m[2] # <<>> THEN ToInt(m[2]) ELSE file_size - 1
                  end == IF end0 >= file_size THEN file_size - 1 ELSE end0
              IN IF start < 0 \/ start >= file_size THEN NoRange
                 ELSE IF start > end THEN NoRange
                 ELSE <<start, end>>

\* generate_etag(file_id): a hash of the file id as the route received it;
\* distinct ids give distinct tags
generate_etag(file_id) == <<"#">> \o file_id

\* Adaptive chunk sizes, scaled down: server.py sets 32768, 65536, 131072
CHUNK_SIZE_SMALL == 1
CHUNK_SIZE_MEDIUM == 2
CHUNK_SIZE_LARGE == 4

get_adaptive_chunk_size(connection_speed) ==
    IF connection_speed = "" THEN CHUNK_SIZE_MEDIUM
    ELSE IF connection_speed \in {"slow-2g", "2g"} THEN CHUNK_SIZE_SMALL
    ELSE IF connection_speed = "3g" THEN CHUNK_SIZE_MEDIUM
    ELSE IF connection_speed \in {"4g", "5g"} THEN CHUNK_SIZE_LARGE
    ELSE CHUNK_SIZE_MEDIUM

\* Python truthiness of a file size: None and 0 are false
Truthy(size) == size # NoSize /\ size # 0


\* a header that is not sent
Absent == 0 - 1

\* "Cache-Control": "public, max-age=3600"
CACHE_MAX_AGE == 3600

NoResponse ==
    [status |-> 0, accept_ranges |-> "", etag |-> <<>>, max_age |-> Absent,
     content_range |-> <<>>, content_length |-> Absent]

\* Response(status_code=304) and the JSON answer of an HTTPException: none of
\* the streaming headers is set
BareResponse(status) == [NoResponse EXCEPT !.status = status]

\* the `headers` dict of stream_video
StreamHeaders(etag) ==
    [NoResponse EXCEPT !.accept_ranges = "bytes", !.etag = etag, !.max_age = CACHE_MAX_AGE]

\* stream_video with the Content-Length of a partial response taken from the
\* whole file
StreamResponse_LengthOfWholeFile(r, result) ==
    IF result.what = "raise"
    THEN BareResponse(500)
    ELSE LET etag == generate_etag(r.file_id)
             file_size == result.size
             range_tuple == IF r.range # <<>> /\ Truthy(file_size)
                            THEN parse_range_header(r.range, file_size)
                            ELSE NoRange
         IN IF r.if_none_match # <<>> /\ r.if_none_match = etag
            THEN BareResponse(304)
            ELSE IF range_tuple # NoRange /\ Truthy(file_size)
            THEN [StreamHeaders(etag) EXCEPT
                    !.status = 206,
                    !.content_range = <<range_tuple[1], range_tuple[2], file_size>>,
                    !.content_length = file_size]
            ELSE [StreamHeaders(etag) EXCEPT
                    !.status = 200,
                    !.content_length = IF Truthy(file_size) THEN file_size ELSE Absent]

\* stream_video with the Range header handled before If-None-Match
StreamResponse_RangeBeforeEtag(r, result) ==
    IF result.what = "raise"
    THEN BareResponse(500)
    ELSE LET etag == generate_etag(r.file_id)
             file_size == result.size
             range_tuple == IF r.range # <<>> /\ Truthy(file_size)
                            THEN parse_range_header(r.range, file_size)
                            ELSE NoRange
         IN IF range_tuple # NoRange /\ Truthy(file_size)
            THEN [StreamHeaders(etag) EXCEPT
                    !.status = 206,
                    !.content_range = <<range_tuple[1], range_tuple[2], file_size>>,
                    !.content_length = range_tuple[2] - range_tuple[1] + 1]
            ELSE IF r.if_none_match # <<>> /\ r.if_none_match = etag
            THEN BareResponse(304)
            ELSE [StreamHeaders(etag) EXCEPT
                    !.status = 200,
                    !.content_length = IF Truthy(file_size) THEN file_size ELSE Absent]

\* stream_video after get_file_info_cached has returned or raised `result`
StreamResponse(r, result) ==
    IF result.what = "raise"
    THEN BareResponse(500)      \* except Exception as e: raise HTTPException(500)
    ELSE LET etag == generate_etag(r.file_id)
             file_size == result.size
             range_tuple == IF r.range # <<>> /\ Truthy(file_size)
                            THEN parse_range_header(r.range, file_size)
                            ELSE NoRange
         IN IF r.if_none_match # <<>> /\ r.if_none_match = etag
            THEN BareResponse(304)
            ELSE IF range_tuple # NoRange /\ Truthy(file_size)
            THEN [StreamHeaders(etag) EXCEPT
                    !.status = 206,
                    !.content_range = <<range_tuple[1], range_tuple[2], file_size>>,
                    !.content_length = range_tuple[2] - range_tuple[1] + 1]
            ELSE [StreamHeaders(etag) EXCEPT
                    !.status = 200,
                    !.content_length = IF Truthy(file_size) THEN file_size ELSE Absent]

NoFetch == [state |-> "none", url |-> 0, range |-> <<>>, left |-> 0, sent |-> 0,
            log |-> "none", client |-> "connected"]

\* the bytes the content host holds for a handle ("b": size not reported)
BlobSize(h) == IF FileSizeOf(h) = NoSize THEN 3 ELSE FileSizeOf(h)

NoSweep == [by |-> 0, dropped |-> {}, order |-> <<>>]
NoStreak == [file_id |-> <<>>, first |-> 0, calls |-> 0, failed |-> FALSE]

----------------------------------------------------------------------------
(* Segmenter: files, prober answers and encoder commands                   *)

\* sizes of files in the downloads directory run over 0..MaxSize
MaxSize == 3
\* the downloads directory holds at most this many files
MaxFiles == 5

\* the max_size_bytes arguments
Budgets == {1, 2}

\* num_parts rounded down
CeilDiv_RoundedDown(a, b) == a \div b

\* math.ceil(a / b)
CeilDiv(a, b) == (a + b - 1) \div b

\* A path names the downloaded file (<<>>) or a part: <<2>> is
\* base_part2.ext, <<2, 1>> is base_part2_part1.ext.
\* output_name = f"{base_name}_part{i+1}{ext}"
output_name(file_path, i) == file_path \o <<i + 1>>

\* get_video_stream_metadata: {} or the three tags; None is ""
EmptyMeta == [present |-> FALSE, sample_aspect_ratio |-> "", display_aspect_ratio |-> "",
              rotate |-> ""]
StreamMeta(sar, dar, rotate) ==
    [present |-> TRUE, sample_aspect_ratio |-> sar, display_aspect_ratio |-> dar,
     rotate |-> rotate]

\* the videos the bot downloads, by duration in seconds and video stream:
\* one anamorphic and rotated, one with square pixels, no display aspect
\* ratio and no rotation
Sources == {[duration |-> 6, meta |-> StreamMeta("4:3", "16:9", "90")],
            [duration |-> 12, meta |-> StreamMeta("1:1", "N/A", "")]}

\* A directory maps the paths of its files to what they hold: size in bytes,
\* duration in seconds as a fraction <<numerator, denominator>>, and the
\* tags of the video stream.
EmptyDir == [p \in {} |-> 0]
Video(size, duration, meta) == [size |-> size, duration |-> duration, meta |-> meta]

\* os.path.exists is false
NoFile == 0 - 1

\* os.path.getsize(path), NoFile when os.path.exists(path) is false
getsize(dir, path) == IF path \in DOMAIN dir THEN dir[path].size ELSE NoFile

\* the directory after `path` was written (ffmpeg -y overwrites)
Written(dir, path, video) ==
    [p \in DOMAIN dir \cup {path} |-> IF p = path THEN video ELSE dir[p]]

\* there is room in the directory to write `path`
HasRoom(dir, path) == path \in DOMAIN dir \/ Cardinality(DOMAIN dir) < MaxFiles

\* the directory after os.remove(path)
Removed(dir, path) == [p \in DOMAIN dir \ {path} |-> dir[p]]

SCALE_EVEN == "scale=trunc(iw/2)*2:trunc(ih/2)*2"
SCALE_SAR == "scale=trunc(iw*sar/2)*2:trunc(ih/2)*2,setsar=1"

\* A subprocess command line.  ss and t are seconds as fractions
\* <<numerator, denominator>>; aspect and rotate are "" when the option is
\* not given.
NoCmd == [tool |-> "", input |-> <<>>, ss |-> <<0, 1>>, t |-> <<0, 1>>, codec |-> "",
          vf |-> "", aspect |-> "", rotate |-> "", output |-> <<>>]

ffprobe(what, file_path) == [NoCmd EXCEPT !.tool = what, !.input = file_path]

\* cmd_copy of iteration i, for start_time = i * part_duration and
\* part_duration = duration / num_parts
cmd_copy(file_path, i, duration, num_parts) ==
    [NoCmd EXCEPT !.tool = "ffmpeg", !.input = file_path,
                  !.ss = <<i * duration[1], duration[2] * num_parts>>,
                  !.t = <<duration[1], duration[2] * num_parts>>,
                  !.codec = "copy", !.output = output_name(file_path, i)]

\* cmd_transcode of iteration i, built from the stream_meta of that moment
cmd_transcode(file_path, i, duration, num_parts, stream_meta) ==
    LET sar == stream_meta.sample_aspect_ratio
        dar == stream_meta.display_aspect_ratio
        rotate == stream_meta.rotate
    IN [NoCmd EXCEPT !.tool = "ffmpeg", !.input = file_path,
                     !.ss = <<i * duration[1], duration[2] * num_parts>>,
                     !.t = <<duration[1], duration[2] * num_parts>>,
                     !.codec = "libx264",
                     !.vf = IF sar # "" /\ sar \notin {"1:1", "1", "0:1", "N/A"}
                            THEN SCALE_SAR ELSE SCALE_EVEN,
                     !.aspect = IF dar # "" /\ dar \notin {"0:1", "N:A"} THEN dar ELSE "",
                     !.rotate = rotate,
                     !.output = output_name(file_path, i)]

\* What the encoder writes for a command: the window asked for; a copy keeps
\* the tags of its input, a re-encode has the pixels -vf gives it and the
\* aspect ratio and rotation the command sets.
Encoded(cmd, input, size) ==
    Video(size, cmd.t,
          IF cmd.codec = "copy" THEN input.meta
          ELSE StreamMeta(IF cmd.vf = SCALE_SAR THEN "1:1" ELSE input.meta.sample_aspect_ratio,
                          IF cmd.aspect # "" THEN cmd.aspect
                          ELSE input.meta.display_aspect_ratio,
                          cmd.rotate))

\* how a subprocess can end: exit 0, exit non-zero, or
\* create_subprocess_exec raising (an OSError)
RunOutcomes == {"ok", "failed", "cannot_start"}

\* One activation of split_video: its arguments and locals.  pc is the await
\* it is suspended at; built is the cmd_transcode of the current iteration;
\* j counts the parts the verification loop has handled; runs counts the
\* encoder runs of the current iteration.
Frame(file_path, transcode, current_size) ==
    [file_path |-> file_path, transcode |-> transcode, current_size |-> current_size,
     pc |-> "duration", duration |-> <<0, 1>>, num_parts |-> 0, stream_meta |-> EmptyMeta,
     i |-> 0, built |-> NoCmd, runs |-> 0,
     output_parts |-> <<>>, final_parts |-> <<>>, j |-> 0]

NoCall == [file_path |-> <<>>, max_size_bytes |-> 0, transcode |-> FALSE]
Outcome(status, parts, error) == [status |-> status, parts |-> parts, error |-> error]
NoOutcome == Outcome("none", <<>>, "")
NoPrev == [file_path |-> <<>>, max_size_bytes |-> 0, status |-> "none", parts |-> <<>>]

\* What the outermost call has done so far: the encoder runs of all its
\* activations in order, each with the way it ended, and whether a part was
\* split again.
NoHist == [runs |-> <<>>, resplit |-> FALSE]
Run(cmd, outcome) == [cmd |-> cmd, outcome |-> outcome]

----------------------------------------------------------------------------
(* Concatenation streamer: video rows, the temporary directory, responses  *)

\* at most this many chunks of encoder output are sent in one response
MaxChunks == 2

\* download_with_retries: for attempt in range(1, 4)
DOWNLOAD_ATTEMPTS == 3

\* One entry of metadata["parts"].  part is p.get("part", 0): the entries
\* the bot stores carry no "part" key, and sort as 0.
Part(file_id, part) == [file_id |-> file_id, part |-> part]

\* What get_video_by_short_id returns: None, or a row with file_id and
\* metadata["parts"].
NoVideo == [found |-> FALSE, file_id |-> <<>>, parts |-> <<>>]
VideoRow(file_id, parts) == [found |-> TRUE, file_id |-> file_id, parts |-> parts]

\* the rows behind the short ids of the requests
Videos ==
    { NoVideo,
      VideoRow(<<>>, <<>>),
      VideoRow(<<"a">>, <<>>),
      VideoRow(<<"b">>, <<>>),
      VideoRow(<<"a">>, <<Part(<<"a">>, 0)>>),
      VideoRow(<<"c">>, <<Part(<<"c">>, 0), Part(<<"a">>, 0)>>),
      VideoRow(<<"a">>, <<Part(<<"b">>, 2), Part(<<SP, "a">>, 1)>>),
      VideoRow(<<"a">>, <<Part(<<"c">>, 3), Part(<<"a">>, 1), Part(<<"b">>, 2)>>),
      VideoRow(<<"a">>, <<Part(<<"a">>, 1), Part(<<>>, 2), Part(<<"c">>, 3)>>),
      VideoRow(<<>>, <<Part(<<>>, 1), Part(<<SP>>, 2)>>) }

\* the Range headers of /stream/concat requests (<<>>: none)
ConcatRanges == { <<>>, BYTES \o <<"0", "-", "1">> }

\* sorted() without the key: the parts as they are stored
SortedByPart_StoredOrder(parts) == parts

\* sorted(parts, key=lambda p: p.get("part", 0)): stable, ascending
RECURSIVE InsertByPart(_, _)
InsertByPart(sorted, p) ==
    IF sorted = <<>> THEN <<p>>
    ELSE IF sorted[Len(sorted)].part <= p.part THEN Append(sorted, p)
    ELSE Append(InsertByPart(SubSeq(sorted, 1, Len(sorted) - 1), p), sorted[Len(sorted)])

RECURSIVE SortedByPart(_)
SortedByPart(parts) ==
    IF parts = <<>> THEN <<>>
    ELSE InsertByPart(SortedByPart(SubSeq(parts, 1, Len(parts) - 1)), parts[Len(parts)])

\* the loop that builds file_ids, without its two tests
CleanedFileIds_KeepsEmpty(parts) == [k \in DOMAIN parts |-> NormalizeFileId(parts[k].file_id)]

\* file_ids: the stripped file_id of every part that has one, in the order
\* of `parts`
RECURSIVE CleanedFileIds(_)
CleanedFileIds(parts) ==
    IF parts = <<>> THEN <<>>
    ELSE LET raw_id == Head(parts).file_id
             cleaned == NormalizeFileId(raw_id)
         IN (IF raw_id # <<>> /\ cleaned # <<>> THEN <<cleaned>> ELSE <<>>)
                \o CleanedFileIds(Tail(parts))

\* how a handle resolution of the request can end
ResolveAnswers == {"ok", "not_found", "too_big", "error"}

\* what get_file_info_cached gives the request for a handle
Resolution(file_id, answer) ==
    IF answer = "ok"
    THEN Event(0, "return", file_id, FilePathOf(file_id), FileSizeOf(file_id), 200,
               FALSE, 0, FALSE, 0)
    ELSE Event(0, "raise", file_id, 0, NoSize,
               IF answer = "not_found" THEN 404 ELSE IF answer = "too_big" THEN 413 ELSE 500,
               FALSE, 0, FALSE, 0)

\* the bytes behind a download URL
BlobAt(url) == BlobSize(CHOOSE h \in Handles : FilePathOf(h) = url)

\* how one try of a part download can end: all bytes written; the request
\* refused before the file is opened; the body breaking off after some bytes
DownloadOutcomes == {"ok", "refused", "broken"}

\* open(dest_path, "wb") left open for appending
WrittenBytes_Appended(old, url, outcome) ==
    IF outcome = "ok" THEN old + BlobAt(url)
    ELSE IF outcome = "broken" THEN old + 1
    ELSE old

\* the bytes of dest_path after one try: open(dest_path, "wb") truncates
WrittenBytes(old, url, outcome) ==
    IF outcome = "ok" THEN BlobAt(url)
    ELSE IF outcome = "broken" THEN 1
    ELSE old

\* the temporary directory: the part files by index, each with the URL it was
\* fetched from and the bytes it holds, and the lines of concat.txt
NoTemp == [exists |-> FALSE, files |-> EmptyDir, list |-> <<>>]
PartFile(url, bytes) == [url |-> url, bytes |-> bytes]

\* a StreamingResponse that honours the Range header
ConcatResponse_HonoursRange ==
    IF cc.range # <<>>
    THEN [NoResponse EXCEPT !.status = 206, !.accept_ranges = "bytes",
                            !.max_age = CACHE_MAX_AGE, !.content_range = <<0, 1, 2>>]
    ELSE [NoResponse EXCEPT !.status = 200, !.accept_ranges = "none",
                            !.max_age = CACHE_MAX_AGE]

\* StreamingResponse(iter_concat(), media_type="video/mp4", headers={...})
ConcatResponse ==
    [NoResponse EXCEPT !.status = 200, !.accept_ranges = "none", !.max_age = CACHE_MAX_AGE]

\* what the body iterator can meet: a chunk of encoder output, the end of the
\* output after the encoder exited with 0 or with an error, or the client
\* going away
BodyEvents == {"chunk", "eof", "encoder_error", "disconnect"}

NoConcat ==
    [pc |-> "idle", video |-> NoVideo, range |-> <<>>, file_ids |-> <<>>, pending |-> {},
     download_urls |-> <<>>, idx |-> 0, attempt |-> 0, local_paths |-> <<>>]
Try(idx, attempt, outcome) == [idx |-> idx, attempt |-> attempt, outcome |-> outcome]
NoConcatHist ==
    [resolved |-> <<>>, result |-> NoEvent, made_temp |-> FALSE, tries |-> <<>>,
     handed |-> <<>>, spawned |-> FALSE, chunks |-> 0, client |-> "connected"]

----------------------------------------------------------------------------
(* Requests *)

ResolveRequest(raw) ==
    [kind |-> "resolve", file_id |-> raw, range |-> <<>>, if_none_match |-> <<>>, ect |-> ""]
StreamRequest(raw, range, inm, ect) ==
    [kind |-> "stream", file_id |-> raw, range |-> range, if_none_match |-> inm, ect |-> ect]
NoRequest == ResolveRequest(<<>>)

(* Inputs of /stream requests *)

\* the coroutine that serves /stream requests in SpecStream
StreamCallers == {1}

B(rest) == BYTES \o rest

\* the Range headers clients send (<<>>: no Range header)
RangeHeaders ==
    { <<>>,
      B(<<"0", "-", "3">>), B(<<"1", "-", "2">>), B(<<"2", "-">>), B(<<"0", "-", "9">>),
      B(<<"3", "-", "1">>), B(<<"1", "2", "-">>), B(<<"-", "2">>),
      <<"x">>, B(<<"1", "-", "2", "x">>) }

\* the If-None-Match headers clients send for a file id (<<>>: none)
IfNoneMatchHeaders(raw) == { <<>>, generate_etag(raw), <<"#", "z">> }

\* the ECT client hints
ConnectionSpeeds == {"", "4g"}

\* the file ids of /stream requests: path parameters, never None
StreamFileIds == {<<"a">>, <<"b">>, <<SP, "a">>, <<SP>>}

----------------------------------------------------------------------------
(* The adaptive manifest generator.  server.py only calls it               *)
(* (generate_hls_for_video, lines 1847, 1978 and 3154); the generator is   *)
(* modelled from its specification: per asset a directory of segment files *)
(* with a playlist, a lock, a synchronous first pass over at most          *)
(* QUICK_START_PARTS parts and a background extension over the rest.       *)

\* at most this many manifest requests are made in one run, one per requester
MaxManifestRequests == 3

Requesters == 1..MaxManifestRequests

\* K: a composite asset with more parts than this gets a quick-start manifest
QUICK_START_PARTS == 5

\* the assets and the number of parts each is stored in
Assets == {"clip", "season", "film"}
TotalParts == [clip |-> 1, season |-> 5, film |-> 8]

\* the lock of an asset is free, or held by a requester or by the background task
Unlocked == 0
BackgroundTask == MaxManifestRequests + 1

\* how a generation pass (download, concatenation, encoder run) ends
PassOutcomes == {"ok", "failed"}

\* segment files numbered first, first + 1, ..., first + count - 1
Numbered(first, count) == [i \in 1..count |-> first + i - 1]

\* ManifestState: the directory of an asset.  playlistKind "none": no playlist file
ManifestState(kind, segments, parts) ==
    [playlistKind |-> kind, segments |-> segments, initSegment |-> segments # <<>>,
     partsConsumed |-> parts]

NoManifest == ManifestState("none", <<>>, 0)

\* the directory the first pass leaves when it succeeds
FirstPass(a) ==
    IF TotalParts[a] > QUICK_START_PARTS
    THEN ManifestState("in-progress", Numbered(0, QUICK_START_PARTS), QUICK_START_PARTS)
    ELSE ManifestState("finalized", Numbered(0, TotalParts[a]), TotalParts[a])

\* the directory a failed first pass leaves: the holder removes what the encoder wrote
FailedPass_LeavesPartialPlaylist(a) == ManifestState("in-progress", Numbered(0, 1), 1)

FailedPass(a) == NoManifest

\* the directory after the background extension appended the remaining parts
Extended_KeepsKind(a, m) ==
    ManifestState(m.playlistKind,
                  m.segments \o Numbered(Len(m.segments), TotalParts[a] - m.partsConsumed),
                  TotalParts[a])

Extended(a, m) ==
    ManifestState("finalized",
                  m.segments \o Numbered(Len(m.segments), TotalParts[a] - m.partsConsumed),
                  TotalParts[a])

\* a manifest request: its asset, the request that was running the asset's first pass
\* when it arrived, its encoder invocations and the answer it got
ManifestRequest(state, a, behind, invoked, status, body) ==
    [pc |-> state, asset |-> a, behind |-> behind, invoked |-> invoked, status |-> status,
     body |-> body]

NoManifestRequest == ManifestRequest("idle", "", {}, 0, 0, NoManifest)

----------------------------------------------------------------------------
(* The download queue (src/src/queue_manager.py).                          *)

\* at most this many task ids wait in one user's queue
MaxQueue == 3
\* complete_task is followed until attempts has reached this value
MaxAttemptsSeen == 4

Users == {1, 2}
TaskIds == {"t1", "t2"}

\* DownloadTask.max_attempts
max_attempts == 3

\* the user_id the bot gives the task: both tasks are downloads of user 1
UserOf == [t1 |-> 1, t2 |-> 1]

\* class TaskStatus(Enum)
TaskStatus == [QUEUED |-> "queued", RUNNING |-> "running", PAUSED |-> "paused",
               COMPLETED |-> "completed", FAILED |-> "failed", CANCELLED |-> "cancelled"]

\* the fields of DownloadTask the manager reads or writes
DownloadTask(task_id, user_id, status, attempts) ==
    [task_id |-> task_id, user_id |-> user_id, status |-> status, attempts |-> attempts]

\* task_id not in self.tasks
NoTask == DownloadTask("", 0, "", 0)
\* user_id not in self.queues
NoQueue == <<"<absent>">>
\* None in running_tasks
NoTaskId == ""

\* how the body iterator gets to see that the client went away: the server cancels the
\* task (CancelledError at the pending await), closes the generator (GeneratorExit at
\* the yield), or an exception named ClientDisconnected is raised into it
DisconnectSeenAs == {"CancelledError", "GeneratorExit", "ClientDisconnected"}

----------------------------------------------------------------------------
(* parse_range_header on its own: the header strings and file sizes it is  *)
(* called with.                                                            *)

\* a header is `bytes=` or `b` followed by at most this many characters
MaxHeaderTail == 4
\* file sizes run over 1..MaxFileSize
MaxFileSize == 12

HeaderStrings ==
    LET HeaderChars == {"0", "1", "3", "-", "x"}
        HeaderTails == UNION {[1..n -> HeaderChars] : n \in 0..MaxHeaderTail}
    IN {<<>>} \cup {BYTES \o tail : tail \in HeaderTails}
              \cup {<<"b">> \o tail : tail \in HeaderTails}
FileSizes == 1..MaxFileSize

\* no call yet
NoParse == [range_header |-> <<>>, file_size |-> 0, result |-> NoRange]

\* the sets the inputs are drawn from
InputSets == <<Callers, Handles, RawFileIds, HostAnswers, StreamCallers, StreamFileIds,
               RangeHeaders, ConnectionSpeeds, Digits, Budgets, Sources,
               RunOutcomes, Videos, ConcatRanges, ResolveAnswers, DownloadOutcomes,
               BodyEvents, DisconnectSeenAs, HeaderStrings, FileSizes, Requesters, Assets, PassOutcomes, Users, TaskIds>>

Init ==
    /\ \A i \in DOMAIN InputSets : Cardinality(InputSets[i]) > 0
    /\ clock = 0
    /\ token \in BOOLEAN
    /\ file_info_cache = [h \in Handles |-> NoEntry]
    /\ pc = [c \in Callers |-> "idle"]
    /\ req = [c \in Callers |-> NoRequest]
    /\ now = [c \in Callers |-> 0]
    /\ found = [c \in Callers |-> "absent"]
    /\ hostCalls = 0
    /\ requests = 0
    /\ resp = [c \in Callers |-> NoResponse]
    /\ up = [c \in Callers |-> NoFetch]
    /\ last = NoEvent
    /\ insertOrder = <<>>
    /\ overlap = [c \in Callers |-> NoEntry]
    /\ lastSweep = NoSweep
    /\ streak = NoStreak
    /\ fs = EmptyDir
    /\ stack = <<>>
    /\ call = NoCall
    /\ out = NoOutcome
    /\ ran = NoCmd
    /\ spawned = FALSE
    /\ fs0 = EmptyDir
    /\ prev = NoPrev
    /\ hist = NoHist
    /\ cc = NoConcat
    /\ temp_dir = NoTemp
    /\ process = "none"
    /\ cresp = NoResponse
    /\ chist = NoConcatHist
    /\ lock_table = [a \in Assets |-> Unlocked]
    /\ manifest_dir = [a \in Assets |-> NoManifest]
    /\ mreq = [r \in Requesters |-> NoManifestRequest]
    /\ background = [a \in Assets |-> "none"]
    /\ queues = [u \in Users |-> NoQueue]
    /\ tasks = [t \in TaskIds |-> NoTask]
    /\ running_tasks = [u \in Users |-> NoTaskId]
    /\ qhist = [cancelled |-> {}]
    /\ parsed = NoParse

InFlight == {c \in Callers : pc[c] = "getFile"}

Without(seq, x) == SelectSeq(seq, LAMBDA y : y # x)


----------------------------------------------------------------------------
(* Handle resolver cache *)

\* get_file_info_cached up to its first await: strip the id, read the clock,
\* look the cache up, read the token, send getFile.  time.time() is read once
\* per call, t is the value read: successive reads give increasing values.
Lookup(c, raw, t) ==
    LET file_id == NormalizeFileId(raw)
        cached == file_info_cache[file_id]
        stale == cached # NoEntry
    IN
    IF file_id = <<>>
    THEN /\ last' = Event(c, "raise", file_id, 0, NoSize, 404, FALSE, 0, FALSE, 0)
         /\ UNCHANGED <<clock, now, found, hostCalls>>
    ELSE /\ clock < t
         /\ t <= MaxClock
         /\ clock' = t
         /\ IF IsFresh(cached, t)
            THEN /\ last' = Event(c, "return", file_id, cached.url, cached.size, 200,
                                  TRUE, t, FALSE, 0)
                 /\ UNCHANGED <<now, found, hostCalls>>
            ELSE IF ~token
            THEN /\ last' = Event(c, "raise", file_id, 0, NoSize, 500, FALSE, t, stale, 0)
                 /\ UNCHANGED <<now, found, hostCalls>>
            ELSE /\ hostCalls < MaxHostCalls
                 /\ hostCalls' = hostCalls + 1
                 /\ now' = [now EXCEPT ![c] = t]
                 /\ found' = [found EXCEPT ![c] = IF stale THEN "expired" ELSE "absent"]
                 /\ last' = Event(c, "sent", file_id, 0, NoSize, 0, FALSE, t, stale, 1)

\* history: a run of resolves of one handle, each begun after the one before
\* returned and with no other resolve in flight, all within CACHE_TTL of the
\* first, which found no fresh entry
StreakAfterLookup(e) ==
    IF e.file_id = <<>> THEN streak
    ELSE IF InFlight # {} THEN NoStreak
    ELSE IF streak.file_id = e.file_id /\ e.ts - streak.first < CACHE_TTL
    THEN [streak EXCEPT !.calls = @ + e.calls, !.failed = @ \/ e.what = "raise"]
    ELSE IF e.hit THEN NoStreak
    ELSE [file_id |-> e.file_id, first |-> e.ts, calls |-> e.calls,
          failed |-> e.what = "raise"]

\* the coroutine of caller c goes on with what stream_video makes of the
\* resolver's outcome; any other caller is finished
Settle(c, r, e) ==
    IF r.kind = "stream"
    THEN LET response == StreamResponse(r, e) IN
         /\ resp' = [resp EXCEPT ![c] = response]
         /\ req' = [req EXCEPT ![c] = r]
         /\ up' = [up EXCEPT ![c] = [NoFetch EXCEPT !.url = e.url]]   \* download_url
         /\ pc' = [pc EXCEPT ![c] = IF response.status \in {200, 206} THEN "iter" ELSE "sent"]
    ELSE /\ resp' = [resp EXCEPT ![c] = NoResponse]
         /\ req' = [req EXCEPT ![c] = NoRequest]
         /\ up' = [up EXCEPT ![c] = NoFetch]
         /\ pc' = [pc EXCEPT ![c] = "idle"]

Begin(c, r, t) ==
    /\ pc[c] = "idle"
    /\ Lookup(c, r.file_id, t)
    /\ IF last'.what = "sent"
       THEN /\ pc' = [pc EXCEPT ![c] = "getFile"]
            /\ req' = [req EXCEPT ![c] = r]
            /\ resp' = [resp EXCEPT ![c] = NoResponse]
            /\ up' = [up EXCEPT ![c] = NoFetch]
       ELSE Settle(c, r, last')
    /\ requests' = IF r.kind = "stream" THEN requests + 1 ELSE requests
    /\ streak' = StreakAfterLookup(last')
    /\ lastSweep' = NoSweep
    /\ overlap' = [overlap EXCEPT ![c] = NoEntry]
    /\ UNCHANGED <<token, file_info_cache, insertOrder>>
    /\ UNCHANGED <<splitVars, concatVars, manifestVars, queueVars, parseVars>>

\* a failed resolve that also forgets the handle
AfterFailure_DropsEntry(cache, file_id) == [cache EXCEPT ![file_id] = NoEntry]

\* the cache when getFile answered not ok or the request broke: the HTTPException is
\* raised, or the httpx error passes through, before the cache is written
AfterFailure(cache, file_id) == cache

\* a caller other than stream_video (thumbnails, concat, downloads) resolves a handle
get_file_info_cached(c, raw, t) == Begin(c, ResolveRequest(raw), t)

\* the getFile request of caller c completes: the rest of get_file_info_cached
getFile_completes(c, answer) ==
    /\ pc[c] = "getFile"
    /\ LET file_id == NormalizeFileId(req[c].file_id)
           file_path == FilePathOf(file_id)
           entry == [url |-> file_path, size |-> FileSizeOf(file_id), timestamp |-> now[c]]
           written == [file_info_cache EXCEPT ![file_id] = entry]
           cleaned == clean_cache_if_needed(written)
           gone == CachedKeys(written) \ CachedKeys(cleaned)
           order == Without(insertOrder, file_id) \o <<file_id>>
           stale == found[c] = "expired"
           e == IF answer = "ok"
                THEN Event(c, "return", file_id, file_path, FileSizeOf(file_id), 200,
                           FALSE, now[c], stale, 1)
                ELSE Event(c, "raise", file_id, 0, NoSize,
                           IF answer = "too_big" THEN 413
                           ELSE IF answer = "not_found" THEN 404 ELSE 0,
                           FALSE, now[c], stale, 1)
       IN /\ last' = e
          /\ IF answer = "ok"
             THEN /\ file_info_cache' = cleaned
                  /\ insertOrder' = SelectSeq(order, LAMBDA h : h \notin gone)
                  /\ lastSweep' = IF gone = {} THEN NoSweep
                                  ELSE [by |-> c, dropped |-> gone, order |-> order]
             ELSE /\ lastSweep' = NoSweep
                  /\ file_info_cache' = AfterFailure(file_info_cache, file_id)
                  /\ UNCHANGED insertOrder
          /\ streak' = IF streak.file_id = file_id
                       THEN [streak EXCEPT !.failed = @ \/ answer # "ok"]
                       ELSE streak
          /\ Settle(c, req[c], e)
    /\ overlap' = [d \in Callers |->
                      IF d = c THEN NoEntry
                      ELSE IF /\ answer = "ok"
                              /\ pc[d] = "getFile"
                              /\ NormalizeFileId(req[d].file_id) = NormalizeFileId(req[c].file_id)
                      THEN [url |-> FilePathOf(NormalizeFileId(req[c].file_id)),
                            size |-> FileSizeOf(NormalizeFileId(req[c].file_id)),
                            timestamp |-> now[c]]
                      ELSE overlap[d]]
    /\ now' = [now EXCEPT ![c] = 0]
    /\ found' = [found EXCEPT ![c] = "absent"]
    /\ UNCHANGED <<clock, token, hostCalls, requests>>
    /\ UNCHANGED <<splitVars, concatVars, manifestVars, queueVars, parseVars>>

\* what the next time.time() may return: the clock does not run backwards
Times == clock..MaxClock

NextResolver ==
    \/ \E c \in Callers :
           /\ pc[c] = "idle"
           /\ \E raw \in RawFileIds, t \in Times : get_file_info_cached(c, raw, t)
    \/ \E c \in InFlight, answer \in HostAnswers : getFile_completes(c, answer)

SpecResolver == Init /\ [][NextResolver]_vars


----------------------------------------------------------------------------
(* Range proxy: GET /stream/{file_id} *)

stream_video(c, raw, range, inm, ect, t) ==
    /\ requests < MaxRequests
    /\ Begin(c, StreamRequest(raw, range, inm, ect), t)

\* One step of the generator behind the response body.  `window` is the
\* byte range it asks the upstream URL for (<<>>: the whole blob).  The
\* first step opens the upstream request, every later step forwards one
\* chunk; the upstream can fail at any step, and then the generator logs
\* and returns, which ends the body.
IterStep(c, window, ok) ==
    LET file_id == NormalizeFileId(req[c].file_id)
        chunk_size == get_adaptive_chunk_size(req[c].ect)
        total == IF window = <<>> THEN BlobSize(file_id) ELSE window[2] - window[1] + 1
        n == IF up[c].left < chunk_size THEN up[c].left ELSE chunk_size
    IN
    /\ pc[c] = "iter"
    /\ IF ~ok
       THEN /\ up' = [up EXCEPT ![c].state = "failed", ![c].range = window,
                                ![c].log = "error"]
            /\ pc' = [pc EXCEPT ![c] = "sent"]
       ELSE IF up[c].state = "none"
       THEN /\ up' = [up EXCEPT ![c].state = "open", ![c].range = window,
                                ![c].left = total]
            /\ UNCHANGED pc
       ELSE /\ up' = [up EXCEPT ![c].left = @ - n, ![c].sent = @ + n,
                                ![c].state = IF up[c].left - n = 0 THEN "eof" ELSE "open"]
            /\ pc' = [pc EXCEPT ![c] = IF up[c].left - n = 0 THEN "sent" ELSE "iter"]
    /\ last' = NoEvent
    /\ lastSweep' = NoSweep
    /\ UNCHANGED <<clock, token, file_info_cache, req, now, found, hostCalls, requests,
                   resp, insertOrder, streak, overlap>>
    /\ UNCHANGED <<splitVars, concatVars, manifestVars, queueVars, parseVars>>

\* async def iter_range(), the body of a 206 response
iter_range(c, ok) ==
    /\ resp[c].status = 206
    /\ IterStep(c, <<resp[c].content_range[1], resp[c].content_range[2]>>, ok)

\* async def iter_file(), the body of a 200 response
iter_file(c, ok) ==
    /\ resp[c].status = 200
    /\ IterStep(c, <<>>, ok)

\* the upstream fetch after the client went away: the two `async with` blocks close the
\* upstream response and the client on every exit; `except Exception` sees only
\* ClientDisconnected, the other two are BaseExceptions and pass through it unlogged
Disconnected_KeepsReading(f, seen) == [f EXCEPT !.client = "gone"]

Disconnected(f, seen) ==
    [f EXCEPT !.client = "gone",
              !.state = IF f.state = "none" THEN "none" ELSE "closed",
              !.log = IF seen = "ClientDisconnected" THEN "debug" ELSE f.log]

\* the client of caller c closes the connection while the body is being sent
client_disconnects(c, seen) ==
    /\ pc[c] = "iter"
    /\ resp[c].status \in {200, 206}
    /\ up' = [up EXCEPT ![c] = Disconnected(@, seen)]
    /\ pc' = [pc EXCEPT ![c] = IF up'[c].state = "open" THEN "iter" ELSE "gone"]
    /\ last' = NoEvent
    /\ lastSweep' = NoSweep
    /\ UNCHANGED <<clock, token, file_info_cache, req, now, found, hostCalls, requests,
                   resp, insertOrder, streak, overlap>>
    /\ UNCHANGED <<splitVars, concatVars, manifestVars, queueVars, parseVars>>

\* the response of caller c has been sent in full or given up: its coroutine is gone
response_sent(c) ==
    /\ pc[c] \in {"sent", "gone"}
    /\ pc' = [pc EXCEPT ![c] = "idle"]
    /\ req' = [req EXCEPT ![c] = NoRequest]
    /\ resp' = [resp EXCEPT ![c] = NoResponse]
    /\ up' = [up EXCEPT ![c] = NoFetch]
    /\ last' = NoEvent
    /\ lastSweep' = NoSweep
    /\ UNCHANGED <<clock, token, file_info_cache, now, found, hostCalls, requests,
                   insertOrder, streak, overlap>>
    /\ UNCHANGED <<splitVars, concatVars, manifestVars, queueVars, parseVars>>

NextStream ==
    \/ \E c \in StreamCallers :
           /\ pc[c] = "idle"
           /\ \E raw \in StreamFileIds, range \in RangeHeaders, ect \in ConnectionSpeeds,
                 t \in Times :
                  \E inm \in IfNoneMatchHeaders(raw) :
                      stream_video(c, raw, range, inm, ect, t)
    \/ \E c \in StreamCallers \cap InFlight, answer \in HostAnswers :
           getFile_completes(c, answer)
    \/ \E c \in StreamCallers, ok \in BOOLEAN : iter_range(c, ok)
    \/ \E c \in StreamCallers, ok \in BOOLEAN : iter_file(c, ok)
    \/ \E c \in StreamCallers, seen \in DisconnectSeenAs : client_disconnects(c, seen)
    \/ \E c \in StreamCallers : response_sent(c)

SpecStream == Init /\ [][NextStream]_vars

----------------------------------------------------------------------------
(* Segmenter: split_video *)

Top == stack[Len(stack)]
SetTop(f) == [stack EXCEPT ![Len(stack)] = f]
At(where) == stack # <<>> /\ Top.pc = where

\* bot.py: file_path = await download_video(...) puts the file to split into
\* the downloads directory
download_video(size, source) ==
    /\ stack = <<>>
    /\ out = NoOutcome
    /\ getsize(fs, <<>>) = NoFile
    /\ fs' = Written(fs, <<>>, Video(size, <<source.duration, 1>>, source.meta))
    /\ ran' = NoCmd
    /\ UNCHANGED <<stack, call, out, spawned, fs0, prev, hist>>
    /\ UNCHANGED <<serverVars, concatVars, manifestVars, queueVars, parseVars>>

\* an exception leaves split_video: no activation catches it, so it leaves
\* the outermost call
Raise(error) ==
    /\ stack' = <<>>
    /\ out' = Outcome("raised", <<>>, error)

\* the files the bot hands to split_video: the download, and then what the
\* call before returned
SplitTargets == IF out = NoOutcome THEN {<<>>} ELSE {out.parts[k] : k \in DOMAIN out.parts}

\* the bot splits at one budget, MAX_FILE_SIZE
SplitBudgets == IF out = NoOutcome THEN Budgets ELSE {call.max_size_bytes}

\* split_video with the size test `current_size < max_size_bytes`
split_video_StrictlySmaller(file_path, max_size_bytes, transcode) ==
    /\ stack = <<>>
    /\ file_path \in SplitTargets
    /\ max_size_bytes \in SplitBudgets
    /\ call' = [file_path |-> file_path, max_size_bytes |-> max_size_bytes,
                transcode |-> transcode]
    /\ prev' = [file_path |-> call.file_path, max_size_bytes |-> call.max_size_bytes,
                status |-> out.status, parts |-> out.parts]
    /\ fs0' = fs
    /\ hist' = NoHist
    /\ spawned' = FALSE
    /\ ran' = NoCmd
    /\ IF getsize(fs, file_path) = NoFile
       THEN Raise("FileNotFoundError")
       ELSE IF getsize(fs, file_path) < max_size_bytes
       THEN /\ out' = Outcome("returned", <<file_path>>, "")
            /\ stack' = <<>>
       ELSE /\ out' = Outcome("running", <<>>, "")
            /\ stack' = <<Frame(file_path, transcode, getsize(fs, file_path))>>
    /\ UNCHANGED fs
    /\ UNCHANGED <<serverVars, concatVars, manifestVars, queueVars, parseVars>>

\* split_video(file_path, max_size_bytes, transcode) up to its first await,
\* called by the bot
split_video(file_path, max_size_bytes, transcode) ==
    /\ stack = <<>>
    /\ file_path \in SplitTargets
    /\ max_size_bytes \in SplitBudgets
    /\ call' = [file_path |-> file_path, max_size_bytes |-> max_size_bytes,
                transcode |-> transcode]
    /\ prev' = [file_path |-> call.file_path, max_size_bytes |-> call.max_size_bytes,
                status |-> out.status, parts |-> out.parts]
    /\ fs0' = fs
    /\ hist' = NoHist
    /\ spawned' = FALSE
    /\ ran' = NoCmd
    /\ IF getsize(fs, file_path) = NoFile
       THEN Raise("FileNotFoundError")
       ELSE IF getsize(fs, file_path) <= max_size_bytes
       THEN /\ out' = Outcome("returned", <<file_path>>, "")
            /\ stack' = <<>>
       ELSE /\ out' = Outcome("running", <<>>, "")
            /\ stack' = <<Frame(file_path, transcode, getsize(fs, file_path))>>
    /\ UNCHANGED fs
    /\ UNCHANGED <<serverVars, concatVars, manifestVars, queueVars, parseVars>>

\* duration = await get_video_duration(file_path), then num_parts
get_video_duration(ok) ==
    /\ At("duration")
    /\ ran' = ffprobe("ffprobe duration", Top.file_path)
    /\ spawned' = TRUE
    /\ IF ok
       THEN /\ stack' = SetTop([Top EXCEPT
                           !.duration = fs[Top.file_path].duration,
                           !.num_parts = CeilDiv(Top.current_size, call.max_size_bytes),
                           !.pc = IF Top.transcode THEN "metadata" ELSE "slice"])
            /\ UNCHANGED out
       ELSE Raise("ffprobe failed")
    /\ UNCHANGED <<fs, call, fs0, prev, hist>>
    /\ UNCHANGED <<serverVars, concatVars, manifestVars, queueVars, parseVars>>

\* stream_meta = await get_video_stream_metadata(file_path): before the loop
\* when transcode is set, else inside the retry of a failed copy
get_video_stream_metadata(ok) ==
    /\ At("metadata") \/ At("retry_metadata")
    /\ ran' = ffprobe("ffprobe metadata", Top.file_path)
    /\ spawned' = TRUE
    /\ stack' = SetTop([Top EXCEPT
                    !.stream_meta = IF ok THEN fs[Top.file_path].meta ELSE EmptyMeta,
                    !.pc = IF Top.pc = "metadata" THEN "slice" ELSE "retry"])
    /\ UNCHANGED <<fs, call, out, fs0, prev, hist>>
    /\ UNCHANGED <<serverVars, concatVars, manifestVars, queueVars, parseVars>>

\* the sizes the encoder can give a part: a copy holds a share of the bytes
\* of its input, a re-encode can come out larger
PartSizes(f, cmd) == IF cmd.codec = "copy" THEN 1..f.current_size ELSE 1..MaxSize

\* the iteration produced its part: output_parts.append(output_name), next i
Produced(f) ==
    [f EXCEPT !.output_parts = Append(@, output_name(f.file_path, f.i)),
              !.i = @ + 1,
              !.runs = 0,
              !.built = NoCmd,
              !.pc = IF f.i + 1 < f.num_parts THEN "slice" ELSE "verify"]

\* the loop without the retry: a failed copy aborts the split
ffmpeg_slice_NoRetry(outcome, size) ==
    /\ At("slice")
    /\ LET f == Top
           copy == cmd_copy(f.file_path, f.i, f.duration, f.num_parts)
           trans == cmd_transcode(f.file_path, f.i, f.duration, f.num_parts, f.stream_meta)
           final_cmd == IF f.transcode THEN trans ELSE copy
           g == [f EXCEPT !.built = trans, !.runs = 1]
       IN /\ size \in PartSizes(f, final_cmd)
          /\ ran' = final_cmd
          /\ hist' = [hist EXCEPT !.runs = Append(@, Run(final_cmd, outcome))]
          /\ spawned' = TRUE
          /\ IF outcome = "ok"
             THEN /\ HasRoom(fs, final_cmd.output)
                  /\ fs' = Written(fs, final_cmd.output,
                                 Encoded(final_cmd, fs[f.file_path], size))
                  /\ stack' = SetTop(Produced(g))
                  /\ UNCHANGED out
             ELSE /\ Raise(IF outcome = "failed" THEN "ffmpeg split failed" ELSE "OSError")
                  /\ UNCHANGED fs
    /\ UNCHANGED <<call, fs0, prev>>
    /\ UNCHANGED <<serverVars, concatVars, manifestVars, queueVars, parseVars>>

\* iteration i of the loop up to the end of its first encoder run: build
\* cmd_copy and cmd_transcode, run final_cmd
ffmpeg_slice(outcome, size) ==
    /\ At("slice")
    /\ LET f == Top
           copy == cmd_copy(f.file_path, f.i, f.duration, f.num_parts)
           trans == cmd_transcode(f.file_path, f.i, f.duration, f.num_parts, f.stream_meta)
           final_cmd == IF f.transcode THEN trans ELSE copy
           g == [f EXCEPT !.built = trans, !.runs = 1]
       IN /\ size \in PartSizes(f, final_cmd)
          /\ ran' = final_cmd
          /\ hist' = [hist EXCEPT !.runs = Append(@, Run(final_cmd, outcome))]
          /\ spawned' = TRUE
          /\ IF outcome = "ok"
             THEN /\ HasRoom(fs, final_cmd.output)
                  /\ fs' = Written(fs, final_cmd.output,
                                 Encoded(final_cmd, fs[f.file_path], size))
                  /\ stack' = SetTop(Produced(g))
                  /\ UNCHANGED out
             ELSE IF outcome = "failed" /\ ~f.transcode
             THEN /\ stack' = SetTop([g EXCEPT !.pc = IF f.stream_meta.present THEN "retry"
                                                     ELSE "retry_metadata"])
                  /\ UNCHANGED <<fs, out>>
             ELSE /\ Raise(IF outcome = "failed" THEN "ffmpeg split failed" ELSE "OSError")
                  /\ UNCHANGED fs
    /\ UNCHANGED <<call, fs0, prev>>
    /\ UNCHANGED <<serverVars, concatVars, manifestVars, queueVars, parseVars>>

\* the retry of a failed copy: run the cmd_transcode built before the copy
\* ran; an exception of the retry is logged and the non-zero returncode of the
\* copy stands
ffmpeg_retry(outcome, size) ==
    /\ At("retry")
    /\ LET f == Top
           g == [f EXCEPT !.runs = @ + 1]
       IN /\ size \in PartSizes(f, f.built)
          /\ ran' = f.built
          /\ hist' = [hist EXCEPT !.runs = Append(@, Run(f.built, outcome))]
          /\ spawned' = TRUE
          /\ IF outcome = "ok"
             THEN /\ HasRoom(fs, f.built.output)
                  /\ fs' = Written(fs, f.built.output,
                                 Encoded(f.built, fs[f.file_path], size))
                  /\ stack' = SetTop(Produced(g))
                  /\ UNCHANGED out
             ELSE /\ Raise("ffmpeg split failed")
                  /\ UNCHANGED fs
    /\ UNCHANGED <<call, fs0, prev>>
    /\ UNCHANGED <<serverVars, concatVars, manifestVars, queueVars, parseVars>>

\* the verification loop without the size test: every part is kept
verify_part_KeepsEveryPart ==
    /\ At("verify")
    /\ Top.j < Len(Top.output_parts)
    /\ stack' = SetTop([Top EXCEPT !.final_parts = Append(@, Top.output_parts[Top.j + 1]),
                                   !.j = @ + 1])
    /\ ran' = NoCmd
    /\ UNCHANGED <<fs, call, out, spawned, fs0, prev, hist>>
    /\ UNCHANGED <<serverVars, concatVars, manifestVars, queueVars, parseVars>>

\* one round of `for part_path in output_parts`: keep the part, or split it
\* again with transcode=False
verify_part ==
    /\ At("verify")
    /\ Top.j < Len(Top.output_parts)
    /\ LET f == Top
           part_path == f.output_parts[f.j + 1]
           part_size == getsize(fs, part_path)
           kept == [f EXCEPT !.final_parts = Append(@, part_path), !.j = @ + 1]
       IN IF part_size = NoFile \/ part_size <= call.max_size_bytes
          THEN /\ stack' = SetTop(kept)
               /\ UNCHANGED hist
          ELSE /\ stack' = Append(SetTop([f EXCEPT !.pc = "sub"]),
                                     Frame(part_path, FALSE, part_size))
               /\ hist' = [hist EXCEPT !.resplit = TRUE]
    /\ ran' = NoCmd
    /\ UNCHANGED <<fs, call, out, spawned, fs0, prev>>
    /\ UNCHANGED <<serverVars, concatVars, manifestVars, queueVars, parseVars>>

\* return final_parts: to the bot, or to the activation that split the part,
\* which removes the part unless it came back alone and extends final_parts
split_returns ==
    /\ At("verify")
    /\ Top.j = Len(Top.output_parts)
    /\ LET sub_parts == Top.final_parts IN
       IF Len(stack) = 1
       THEN /\ stack' = <<>>
            /\ out' = Outcome("returned", sub_parts, "")
            /\ UNCHANGED fs
       ELSE LET f == stack[Len(stack) - 1]
                part_path == f.output_parts[f.j + 1]
            IN /\ fs' = IF sub_parts # <<part_path>> /\ getsize(fs, part_path) # NoFile
                        THEN Removed(fs, part_path) ELSE fs
               /\ stack' = [SubSeq(stack, 1, Len(stack) - 1) EXCEPT ![Len(stack) - 1] =
                               [f EXCEPT !.final_parts = @ \o sub_parts, !.j = @ + 1,
                                         !.pc = "verify"]]
               /\ UNCHANGED out
    /\ ran' = NoCmd
    /\ UNCHANGED <<call, spawned, fs0, prev, hist>>
    /\ UNCHANGED <<serverVars, concatVars, manifestVars, queueVars, parseVars>>

NextSplit ==
    \/ \E size \in 1..MaxSize, source \in Sources : download_video(size, source)
    \/ \E file_path \in SplitTargets, max_size_bytes \in SplitBudgets, transcode \in BOOLEAN :
           split_video(file_path, max_size_bytes, transcode)
    \/ \E ok \in BOOLEAN : get_video_duration(ok)
    \/ \E ok \in BOOLEAN : get_video_stream_metadata(ok)
    \/ \E outcome \in RunOutcomes, size \in 1..MaxSize : ffmpeg_slice(outcome, size)
    \/ \E outcome \in RunOutcomes, size \in 1..MaxSize : ffmpeg_retry(outcome, size)
    \/ verify_part
    \/ split_returns

\* the bot does not start without TELEGRAM_BOT_TOKEN
InitBot == Init /\ token

SpecSplit == InitBot /\ [][NextSplit]_vars

----------------------------------------------------------------------------
(* Concatenation streamer: stream_concat *)

\* raise HTTPException(status): the request is answered with the status
ConcatFails(status) ==
    /\ cresp' = BareResponse(status)
    /\ cc' = [cc EXCEPT !.pc = "sent", !.pending = {}]

\* GET /stream/concat/{short_id} up to its first await on the resolver: look
\* the video up, delegate or build file_ids
stream_concat(video, range) ==
    /\ cc.pc \in {"idle", "sent"}
    /\ temp_dir' = NoTemp
    /\ process' = "none"
    /\ chist' = NoConcatHist
    /\ LET c0 == [NoConcat EXCEPT !.video = video, !.range = range]
           file_ids == CleanedFileIds(SortedByPart(video.parts))
       IN IF ~video.found
          THEN /\ cresp' = BareResponse(404)
               /\ cc' = [c0 EXCEPT !.pc = "sent"]
          ELSE IF video.parts = <<>>
          THEN IF video.file_id = <<>>
               THEN /\ cresp' = BareResponse(404)
                    /\ cc' = [c0 EXCEPT !.pc = "sent"]
               ELSE /\ cresp' = NoResponse
                    /\ cc' = [c0 EXCEPT !.pc = "delegated"]
          ELSE IF file_ids = <<>>
          THEN /\ cresp' = BareResponse(404)
               /\ cc' = [c0 EXCEPT !.pc = "sent"]
          ELSE /\ cresp' = NoResponse
               /\ cc' = [c0 EXCEPT !.pc = "gather", !.file_ids = file_ids,
                                   !.pending = DOMAIN file_ids,
                                   !.download_urls = [k \in DOMAIN file_ids |-> 0]]
    /\ UNCHANGED <<serverVars, splitVars, manifestVars, queueVars, parseVars>>

\* stream_video(file_id) called as a function, not as a route: range and
\* if_none_match are their defaults, the Header(None) objects, which are
\* true and are no strings, and request is None.  With a file size,
\* parse_range_header hands the object to re.match, which raises TypeError;
\* stream_video turns every exception into HTTPException(500).
stream_video_direct(file_id, result) ==
    IF result.what = "raise" THEN BareResponse(500)
    ELSE IF Truthy(result.size) THEN BareResponse(500)
    ELSE StreamResponse(StreamRequest(file_id, <<>>, <<>>, ""), result)

\* return await stream_video(file_id): the resolver answers and stream_video
\* builds its response
stream_video_returns(answer) ==
    /\ cc.pc = "delegated"
    /\ LET result == Resolution(NormalizeFileId(cc.video.file_id), answer)
       IN /\ cresp' = stream_video_direct(cc.video.file_id, result)
          /\ chist' = [chist EXCEPT !.result = result]
    /\ cc' = [cc EXCEPT !.pc = "sent"]
    /\ UNCHANGED <<temp_dir, process>>
    /\ UNCHANGED <<serverVars, splitVars, manifestVars, queueVars, parseVars>>

\* asyncio.gather(...): the resolution of file_ids[k] completes.  gather
\* puts each result at the place of its argument; the first exception leaves
\* gather.  When the last one is in, tempfile.mkdtemp() and the first
\* download begins.
gather_completes(k, answer) ==
    /\ cc.pc = "gather"
    /\ k \in cc.pending
    /\ LET result == Resolution(cc.file_ids[k], answer)
           left == cc.pending \ {k}
       IN IF answer = "ok"
          THEN /\ chist' = [chist EXCEPT !.resolved = Append(@, k),
                                         !.made_temp = @ \/ left = {}]
               /\ cc' = [cc EXCEPT !.pending = left,
                                   !.download_urls[k] = result.url,
                                   !.pc = IF left = {} THEN "download" ELSE "gather",
                                   !.idx = IF left = {} THEN 1 ELSE 0,
                                   !.attempt = IF left = {} THEN 1 ELSE 0]
               /\ temp_dir' = IF left = {} THEN [NoTemp EXCEPT !.exists = TRUE] ELSE temp_dir
               /\ UNCHANGED cresp
          ELSE /\ ConcatFails(result.status)
               /\ UNCHANGED <<temp_dir, chist>>
    /\ UNCHANGED process
    /\ UNCHANGED <<serverVars, splitVars, manifestVars, queueVars, parseVars>>

\* one try of download_with_retries for part idx; after the last part,
\* concat.txt is written and the encoder is about to be started; after the
\* last try failed, shutil.rmtree(temp_dir) and the exception becomes
\* HTTPException(500)
download_with_retries(outcome) ==
    /\ cc.pc = "download"
    /\ LET idx == cc.idx
           url == cc.download_urls[idx]
           old == IF idx \in DOMAIN temp_dir.files THEN temp_dir.files[idx].bytes ELSE 0
           bytes == WrittenBytes(old, url, outcome)
           files == IF outcome = "refused" THEN temp_dir.files
                    ELSE [i \in DOMAIN temp_dir.files \cup {idx} |->
                             IF i = idx THEN PartFile(url, bytes) ELSE temp_dir.files[i]]
           local_paths == Append(cc.local_paths, idx)
           tried == [chist EXCEPT !.tries = Append(@, Try(idx, cc.attempt, outcome))]
       IN IF outcome = "ok"
          THEN IF idx < Len(cc.download_urls)
               THEN /\ cc' = [cc EXCEPT !.local_paths = local_paths, !.idx = idx + 1,
                                        !.attempt = 1]
                    /\ temp_dir' = [temp_dir EXCEPT !.files = files]
                    /\ chist' = tried
                    /\ UNCHANGED cresp
               ELSE /\ cc' = [cc EXCEPT !.local_paths = local_paths, !.pc = "spawn"]
                    /\ temp_dir' = [temp_dir EXCEPT !.files = files, !.list = local_paths]
                    /\ chist' = [tried EXCEPT !.handed =
                                    [i \in DOMAIN local_paths |-> files[local_paths[i]].url]]
                    /\ UNCHANGED cresp
          ELSE IF cc.attempt < DOWNLOAD_ATTEMPTS
          THEN /\ cc' = [cc EXCEPT !.attempt = @ + 1]
               /\ temp_dir' = [temp_dir EXCEPT !.files = files]
               /\ chist' = tried
               /\ UNCHANGED cresp
          ELSE /\ ConcatFails(500)
               /\ temp_dir' = NoTemp
               /\ chist' = tried
    /\ UNCHANGED process
    /\ UNCHANGED <<serverVars, splitVars, manifestVars, queueVars, parseVars>>

\* process = await asyncio.create_subprocess_exec(*cmd, ...) and the return
\* of the StreamingResponse; an exception of the start (other than
\* NotImplementedError) goes to `except Exception` of stream_concat
create_subprocess_exec(started) ==
    /\ cc.pc = "spawn"
    /\ IF started
       THEN /\ process' = "running"
            /\ cresp' = ConcatResponse
            /\ cc' = [cc EXCEPT !.pc = "body"]
            /\ chist' = [chist EXCEPT !.spawned = TRUE]
       ELSE /\ ConcatFails(500)
            /\ UNCHANGED <<process, chist>>
    /\ UNCHANGED temp_dir
    /\ UNCHANGED <<serverVars, splitVars, manifestVars, queueVars, parseVars>>

\* one round of iter_concat: a chunk is read and yielded, or the generator
\* ends and its finally block runs
iter_concat(event) ==
    /\ cc.pc = "body"
    /\ IF event = "chunk"
       THEN /\ chist.chunks < MaxChunks
            /\ chist' = [chist EXCEPT !.chunks = @ + 1]
            /\ UNCHANGED <<cc, temp_dir, process>>
       ELSE /\ process' = IF event = "disconnect" THEN "terminated" ELSE "exited"
            /\ temp_dir' = NoTemp
            /\ chist' = [chist EXCEPT !.client = IF event = "disconnect" THEN "gone" ELSE @]
            /\ cc' = [cc EXCEPT !.pc = "sent"]
    /\ UNCHANGED cresp
    /\ UNCHANGED <<serverVars, splitVars, manifestVars, queueVars, parseVars>>

NextConcat ==
    \/ \E video \in Videos, range \in ConcatRanges : stream_concat(video, range)
    \/ \E answer \in ResolveAnswers : stream_video_returns(answer)
    \/ \E k \in cc.pending, answer \in ResolveAnswers : gather_completes(k, answer)
    \/ \E outcome \in DownloadOutcomes : download_with_retries(outcome)
    \/ \E started \in BOOLEAN : create_subprocess_exec(started)
    \/ \E event \in BodyEvents : iter_concat(event)

SpecConcat == Init /\ [][NextConcat]_vars

----------------------------------------------------------------------------
(* Claims about the range proxy *)

\* the decimal digits of n, as a client writes them
DigitChar(n) == CHOOSE ch \in Digits : DigitValue(ch) = n
RECURSIVE Dec(_)
Dec(n) == IF n < 10 THEN <<DigitChar(n)>> ELSE Dec(n \div 10) \o <<DigitChar(n % 10)>>

\* the headers `bytes=a-b` and `bytes=a-`
ExactRange(a, b) == BYTES \o Dec(a) \o <<"-">> \o Dec(b)
OpenRange(a) == BYTES \o Dec(a) \o <<"-">>

\* the numbers the Range headers of the model can carry
Nums == 0..12

HandleOf(c) == NormalizeFileId(req[c].file_id)
SizeOf(c) == FileSizeOf(HandleOf(c))
Responded(c) == resp[c].status # 0
\* get_file_info_cached gave stream_video a download URL
Resolved(c) == up[c].url # 0
EtagMatches(c) ==
    req[c].if_none_match # <<>> /\ req[c].if_none_match = generate_etag(req[c].file_id)

\* the request of c was resolved, with a known and positive size, and answered
ResolvedWithSize(c) == Responded(c) /\ Resolved(c) /\ SizeOf(c) > 0

\* the request of c carries `bytes=a-b` with 0 <= a <= b < size, the size
\* being known and positive
ValidExactRange(c, a, b) ==
    /\ ResolvedWithSize(c)
    /\ a <= b /\ b < SizeOf(c)
    /\ req[c].range = ExactRange(a, b)

\* C1 as stated: a valid bytes=a-b always gets 206, Content-Range a-b/size,
\* Content-Length b-a+1, an upstream request for a..b and b-a+1 body bytes.
C1_ValidRangeGets206 ==
    \A c \in StreamCallers :
        ResolvedWithSize(c) =>
            \A a \in 0..(SizeOf(c) - 1) : \A b \in a..(SizeOf(c) - 1) :
                req[c].range = ExactRange(a, b)
                    => /\ resp[c].status = 206
                       /\ resp[c].content_range = <<a, b, SizeOf(c)>>
                       /\ resp[c].content_length = b - a + 1
                       /\ pc[c] = "sent" => (up[c].range = <<a, b>> /\ up[c].sent = b - a + 1)

\* C1 as amended: unless If-None-Match equals the ETag, a valid bytes=a-b
\* gets 206, Content-Range a-b/size and Content-Length b-a+1; the upstream
\* is asked for exactly a..b, and the body is exactly b-a+1 bytes once the
\* upstream has delivered the window, never more.
C1_ValidRangeGets206UnlessNotModified ==
    \A c \in StreamCallers :
        (ResolvedWithSize(c) /\ ~EtagMatches(c)) =>
            \A a \in 0..(SizeOf(c) - 1) : \A b \in a..(SizeOf(c) - 1) :
                req[c].range = ExactRange(a, b)
                    => /\ resp[c].status = 206
                       /\ resp[c].content_range = <<a, b, SizeOf(c)>>
                       /\ resp[c].content_length = b - a + 1
                       /\ up[c].state # "none" => up[c].range = <<a, b>>
                       /\ up[c].sent <= b - a + 1
                       /\ up[c].state = "eof" => up[c].sent = b - a + 1
                       /\ pc[c] = "sent" => up[c].state \in {"eof", "failed"}

\* C1 witness: the window 1..2 of a 4-byte blob has been streamed in full.
C1_Witness ==
    \E c \in StreamCallers :
        /\ ValidExactRange(c, 1, 2)
        /\ pc[c] = "sent"
        /\ resp[c].status = 206
        /\ up[c].state = "eof"
        /\ up[c].sent = 2

\* a Range header that is sent and is unusable for a blob of `size` bytes:
\* not of the form bytes=start-end or bytes=start-, or start >= size, or
\* start > end after end is clamped to size-1
Usable(h, size) ==
    \E a \in Nums :
        /\ a < size
        /\ \/ h = OpenRange(a)
           \/ \E b \in Nums : h = ExactRange(a, b) /\ a <= b
Unusable(h, size) == h # <<>> /\ ~Usable(h, size)

\* C2: a request with an unusable Range header gets the full-file response:
\* 200, Content-Length = size, no Content-Range (If-None-Match not matching,
\* size known).
C2_UnusableRangeGetsFullFile ==
    \A c \in StreamCallers :
        (/\ Responded(c) /\ Resolved(c)
         /\ SizeOf(c) > 0
         /\ ~EtagMatches(c)
         /\ Unusable(req[c].range, SizeOf(c)))
            => /\ resp[c].status = 200
               /\ resp[c].content_length = SizeOf(c)
               /\ resp[c].content_range = <<>>

\* C3 as stated: If-None-Match equal to the ETag always gets 304 and no
\* upstream byte fetch.
C3_MatchingEtagGets304 ==
    \A c \in StreamCallers :
        (Responded(c) /\ EtagMatches(c))
            => /\ resp[c].status = 304
               /\ up[c].state = "none"

\* C3 as amended: when the handle resolves, If-None-Match equal to the ETag
\* gets 304, no body and no upstream byte fetch, whatever the Range header.
C3_MatchingEtagGets304WhenResolved ==
    \A c \in StreamCallers :
        (Responded(c) /\ Resolved(c) /\ EtagMatches(c))
            => /\ resp[c].status = 304
               /\ resp[c].content_range = <<>>
               /\ pc[c] \in {"sent", "idle"}
               /\ up[c].state = "none"
               /\ up[c].sent = 0

\* C3 witness: a request with a valid Range and a matching If-None-Match was
\* answered 304.
C3_Witness ==
    \E c \in StreamCallers :
        /\ EtagMatches(c)
        /\ req[c].range = ExactRange(0, 3)
        /\ SizeOf(c) = 4
        /\ resp[c].status = 304

\* C4: every 200, 206 and 304 response carries Accept-Ranges: bytes, the
\* ETag of the handle and a Cache-Control max-age.
C4_EveryVariantHasCachingHeaders ==
    \A c \in StreamCallers :
        resp[c].status \in {200, 206, 304}
            => /\ resp[c].accept_ranges = "bytes"
               /\ resp[c].etag = generate_etag(req[c].file_id)
               /\ resp[c].max_age \in 0..CACHE_MAX_AGE

\* C5: when the content host answers not-found (too-large), the response of
\* /stream is 404 (413).
C5_HostErrorsKeepTheirStatus ==
    \A c \in StreamCallers :
        (/\ last.caller = c
         /\ last.what = "raise"
         /\ last.calls = 1
         /\ last.status \in {404, 413}
         /\ req[c].kind = "stream")
            => resp[c].status = last.status

----------------------------------------------------------------------------
(* Claims about the handle resolver cache *)

\* the latest step was the lookup of a resolve of a non-empty handle
LookupStep ==
    /\ last.file_id # <<>>
    /\ \/ last.what = "sent"
       \/ last.what \in {"return", "raise"} /\ last.calls = 0

\* the entry the cache holds for the handle of the latest step
LastEntry == file_info_cache[last.file_id]

\* C6, first sentence: a resolve whose lookup finds an entry younger than the
\* TTL returns that entry's (url, size) and sends nothing to the content host.
C6_FreshEntryServedFromCache ==
    (/\ LookupStep
     /\ LastEntry # NoEntry
     /\ last.ts - LastEntry.timestamp < CACHE_TTL)
    => /\ last.what = "return"
       /\ last.hit
       /\ last.url = LastEntry.url
       /\ last.size = LastEntry.size
       /\ last.calls = 0

C7_ExpiredEntryRefetched ==
    /\ (last.what = "return" /\ last.hit)
           => (LastEntry # NoEntry /\ last.ts - LastEntry.timestamp < CACHE_TTL)
    /\ (last.what = "return" /\ last.stale)
           => /\ ~last.hit
              /\ last.calls = 1
              /\ LastEntry = [url |-> last.url, size |-> last.size, timestamp |-> last.ts]

\* C8: the resolver cache never holds more than MAX_CACHE_SIZE entries when
\* control is back at the event loop.
C8_CacheBounded ==
    Cardinality(CachedKeys(file_info_cache)) <= MAX_CACHE_SIZE

\* C8 witness: a sweep has just removed an entry and left a full cache.
C8_Witness ==
    /\ lastSweep.dropped # {}
    /\ Cardinality(CachedKeys(file_info_cache)) = MAX_CACHE_SIZE

\* C9: a sweep keeps the MAX_CACHE_SIZE entries written most recently, that
\* is, what it drops are the entries written least recently.
C9_SweepKeepsMostRecentlyInserted ==
    lastSweep.dropped # {}
        => lastSweep.dropped =
               {lastSweep.order[i] : i \in 1..(Len(lastSweep.order) - MAX_CACHE_SIZE)}

----------------------------------------------------------------------------
(* Claims about the segmenter *)

\* the outermost split_video call was made on a file no larger than the budget
SmallFileCall ==
    /\ call # NoCall
    /\ getsize(fs0, call.file_path) # NoFile
    /\ getsize(fs0, call.file_path) <= call.max_size_bytes

\* C10: split_video on a file whose size is at most the budget returns
\* exactly [file] at once, starts no prober or encoder subprocess and creates
\* or deletes no file; splitting the returned file again gives the same list.
C10_SmallFileReturnedAsIs ==
    /\ SmallFileCall
           => /\ out = Outcome("returned", <<call.file_path>>, "")
              /\ stack = <<>>
              /\ ~spawned
              /\ ran = NoCmd
              /\ fs = fs0
    /\ (/\ call # NoCall
        /\ prev.status = "returned"
        /\ prev.parts = <<prev.file_path>>
        /\ call.file_path = prev.file_path)
           => /\ out.status = "returned"
              /\ out.parts = prev.parts

\* C10 witness: a file exactly as large as the budget has been handed to
\* split_video twice, and both calls returned the file itself
C10_Witness ==
    /\ call # NoCall
    /\ getsize(fs0, call.file_path) = call.max_size_bytes
    /\ prev.status = "returned"
    /\ prev.parts = <<call.file_path>>
    /\ out = Outcome("returned", <<call.file_path>>, "")

LargeFileSplit ==
    /\ call # NoCall
    /\ out.status = "returned"
    /\ getsize(fs0, call.file_path) > call.max_size_bytes

\* every encoder run of the call exited with status 0
AllSlicesSucceeded == \A k \in DOMAIN hist.runs : hist.runs[k].outcome = "ok"

\* the returned list is the ceil(size / budget) slices of the file in
\* start-time order: part i was cut from the file by a run that starts at
\* i * duration / numParts and lasts duration / numParts
ReturnsThePlannedSlices ==
    LET size == getsize(fs0, call.file_path)
        budget == call.max_size_bytes
        numParts == CHOOSE n \in 1..size : (n - 1) * budget < size /\ size <= n * budget
        duration == fs0[call.file_path].duration
    IN /\ Len(out.parts) = numParts
       /\ \A i \in 0..(numParts - 1) :
              /\ out.parts[i + 1] = output_name(call.file_path, i)
              /\ \E k \in DOMAIN hist.runs :
                     LET cmd == hist.runs[k].cmd
                     IN /\ cmd.output = out.parts[i + 1]
                        /\ cmd.input = call.file_path
                        /\ cmd.ss[1] * duration[2] * numParts = i * duration[1] * cmd.ss[2]
                        /\ cmd.t[1] * duration[2] * numParts = duration[1] * cmd.t[2]

C13_ResplitInputShrinks ==
    \A k \in 2..Len(stack) : stack[k].current_size < stack[k - 1].current_size

\* the encoder runs that wrote to, or were to write to, the path
RunsOf(path) == {k \in DOMAIN hist.runs : hist.runs[k].cmd.output = path}

\* run k + 1 is the re-encode of the window run k copied
IsRetryOf(k) ==
    /\ k + 1 \in DOMAIN hist.runs
    /\ LET copy == hist.runs[k].cmd
           again == hist.runs[k + 1].cmd
       IN /\ again.codec = "libx264"
          /\ again.input = copy.input
          /\ again.output = copy.output
          /\ again.ss = copy.ss
          /\ again.t = copy.t

\* the latest step was copy run k failing, and its retry comes next
RetryPending(k) ==
    /\ k = Len(hist.runs)
    /\ stack # <<>>
    /\ Top.pc \in {"retry", "retry_metadata"}
    /\ Top.file_path = hist.runs[k].cmd.input
    /\ output_name(Top.file_path, Top.i) = hist.runs[k].cmd.output

\* what becomes of the copy runs in CopyFailures: one retry each, a
\* successful retry keeps the part and goes on, a failed one aborts the split
\* there; and no slice takes more than two encoder runs
OneRetryPerFailedCopy(CopyFailures) ==
    /\ \A k \in DOMAIN hist.runs :
           (hist.runs[k].cmd.codec = "copy" /\ hist.runs[k].outcome \in CopyFailures)
               => \/ RetryPending(k)
                  \/ /\ IsRetryOf(k)
                     /\ RunsOf(hist.runs[k].cmd.output) = {k, k + 1}
                     /\ (hist.runs[k + 1].outcome = "ok" /\ ran = hist.runs[k + 1].cmd
                             /\ k + 1 = Len(hist.runs))
                            => /\ out.status = "running"
                               /\ stack # <<>>
                               /\ Top.file_path = ran.input
                               /\ Top.output_parts # <<>>
                               /\ Top.output_parts[Len(Top.output_parts)] = ran.output
                               /\ getsize(fs, ran.output) # NoFile
                               /\ Top.pc = IF Top.i < Top.num_parts THEN "slice" ELSE "verify"
                     /\ hist.runs[k + 1].outcome # "ok"
                            => /\ k + 1 = Len(hist.runs)
                               /\ out.status = "raised"
                               /\ stack = <<>>
    /\ \A k \in DOMAIN hist.runs : Cardinality(RunsOf(hist.runs[k].cmd.output)) <= 2

----------------------------------------------------------------------------
(* Claims about the concatenation streamer *)

\* the request has been answered (for a stream: its body has ended)
ConcatAnswered == cc.pc = "sent"

\* the asset of the request has at most one part and a handle
SimpleAsset ==
    /\ cc.video.found
    /\ Len(cc.video.parts) <= 1
    /\ NormalizeFileId(cc.video.file_id) # <<>>

\* the asset of the request is composite: it has a parts list
CompositeAsset == cc.video.found /\ cc.video.parts # <<>>

\* the request fetched nothing to temporary storage and started no encoder
NothingFetchedNorEncoded ==
    /\ ~chist.made_temp
    /\ ~temp_dir.exists
    /\ chist.tries = <<>>
    /\ ~chist.spawned
    /\ process = "none"

\* C15: for an asset with at most one part, stream_concat delegates to the
\* range proxy on the handle of the asset: no part is downloaded to temporary
\* storage, no encoder is started, and the client gets the response the range
\* proxy gives for that handle (to a request without headers, or with the
\* Range header of this one).
C15_SimpleAssetDelegated ==
    SimpleAsset /\ cc.pc # "idle"
        => /\ NothingFetchedNorEncoded
           /\ ConcatAnswered
                  => \E range \in {<<>>, cc.range} :
                         cresp = StreamResponse(
                                     StreamRequest(cc.video.file_id, range, <<>>, ""),
                                     chist.result)

\* the positions of the parts that have a handle, in ascending order of part
\* index (stored order among equal indexes)
PlayOrder(parts) ==
    LET P == {k \in DOMAIN parts : NormalizeFileId(parts[k].file_id) # <<>>}
    IN CHOOSE order \in [1..Cardinality(P) -> P] :
           \A i, j \in 1..Cardinality(P) :
               i < j => \/ parts[order[i]].part < parts[order[j]].part
                        \/ /\ parts[order[i]].part = parts[order[j]].part
                           /\ order[i] < order[j]

\* C16: the local files listed for the encoder are the parts of the asset
\* that have a handle, in ascending part-index order, each once, whatever
\* order the parts are stored in and the resolutions completed in.
C16_EncoderGetsPartsInIndexOrder ==
    chist.handed # <<>>
        => LET parts == cc.video.parts
               order == PlayOrder(parts)
           IN /\ CompositeAsset
              /\ chist.handed =
                     [i \in DOMAIN order |-> FilePathOf(NormalizeFileId(parts[order[i]].file_id))]
              /\ temp_dir.exists
                     => /\ temp_dir.list = [i \in DOMAIN order |-> i]
                        /\ \A i \in DOMAIN order :
                               temp_dir.files[i].url = chist.handed[i]

\* C16 witness: three parts stored out of order, resolved in yet another
\* order, are listed for the encoder
C16_Witness ==
    /\ Len(chist.handed) = 3
    /\ chist.resolved = <<2, 3, 1>>
    /\ cc.video.parts[1].part = 3
    /\ chist.spawned

\* C17: each part download is tried up to 3 times; a retry rewrites the part
\* from its first byte; a part counts as downloaded as soon as one try
\* succeeds; after the last failed try the request fails with status 500,
\* no later part is downloaded and the encoder is never started.
C17_ThreeTriesPerPart ==
    /\ \A n \in DOMAIN chist.tries :
           LET try == chist.tries[n]
               before == IF n = 1 THEN Try(0, 0, "ok") ELSE chist.tries[n - 1]
           IN /\ try.attempt \in 1..3
              /\ IF before.outcome = "ok"
                 THEN try.idx = before.idx + 1 /\ try.attempt = 1
                 ELSE try.idx = before.idx /\ try.attempt = before.attempt + 1
              /\ (try.outcome # "ok" /\ try.attempt = 3)
                     => /\ n = Len(chist.tries)
                        /\ ConcatAnswered
                        /\ cresp.status = 500
                        /\ ~chist.spawned
                        /\ process = "none"
                        /\ cc.local_paths = [i \in 1..(try.idx - 1) |-> i]
    /\ \A i \in DOMAIN cc.local_paths :
           /\ \E n \in DOMAIN chist.tries :
                  chist.tries[n].idx = cc.local_paths[i] /\ chist.tries[n].outcome = "ok"
           /\ temp_dir.exists
                  => temp_dir.files[cc.local_paths[i]].bytes
                         = BlobAt(cc.download_urls[cc.local_paths[i]])

\* C17 witness: the first part was downloaded at the third try, after a
\* try that broke off and a refused one, and the second part failed three
\* times
C17_Witness ==
    /\ Len(chist.tries) = 6
    /\ chist.tries[1].outcome = "broken"
    /\ chist.tries[2].outcome = "refused"
    /\ chist.tries[3].outcome = "ok"
    /\ chist.tries[6].outcome = "broken"
    /\ cc.local_paths = <<1>>
    /\ cresp.status = 500

\* C18: on every exit path after the temporary directory was made, the
\* directory has been removed and the encoder is not left running; a client
\* disconnect is not reported as a server error.
C18_TempDirAndEncoderReleased ==
    ConcatAnswered /\ chist.made_temp
        => /\ ~temp_dir.exists
           /\ process # "running"
           /\ chist.client = "gone" => cresp.status = 200

\* C19: for a composite asset the response that carries the stream has
\* status 200 and Accept-Ranges: none, whatever the Range header of the
\* request; no response to the request is a 206 or has a Content-Range.
C19_CompositeNeverPartial ==
    CompositeAsset /\ cresp.status # 0
        => /\ cresp.status # 206
           /\ cresp.content_range = <<>>
           /\ chist.spawned
                  => /\ cresp.status = 200
                     /\ cresp.accept_ranges = "none"

\* C19 witness: a request with a Range header for a composite asset got its
\* stream
C19_Witness ==
    /\ CompositeAsset
    /\ cc.range # <<>>
    /\ chist.spawned
    /\ chist.chunks > 0
    /\ cresp.status = 200

\* no part of the asset has a handle
NoPartHasHandle ==
    \A k \in DOMAIN cc.video.parts : NormalizeFileId(cc.video.parts[k].file_id) = <<>>

\* C20: a composite asset none of whose parts has a handle is answered 404
\* before any handle is resolved, any byte is downloaded or any temporary
\* directory is made.
C20_NoHandlesGives404 ==
    CompositeAsset /\ NoPartHasHandle /\ cc.pc # "idle"
        => /\ ConcatAnswered
           /\ cresp.status = 404
           /\ cc.pending = {}
           /\ chist.resolved = <<>>
           /\ NothingFetchedNorEncoded

\* C20 witness: the request for the asset whose two parts have an empty and
\* a blank handle was answered
C20_Witness ==
    /\ CompositeAsset
    /\ Len(cc.video.parts) = 2
    /\ NoPartHasHandle
    /\ cresp.status = 404

----------------------------------------------------------------------------
(* The adaptive manifest generator: the operations.                        *)

\* the asset's lock is free
LockFree_Always(a) == TRUE

LockFree(a) == lock_table[a] = Unlocked

\* requester r holds the lock of asset a (or got it on waking up): it checks the cache
\* directory, serves the playlist that is there or starts the first pass
Enter(r, a, behind) ==
    IF manifest_dir[a].playlistKind # "none"
    THEN /\ mreq' = [mreq EXCEPT ![r] = ManifestRequest("done", a, behind, 0, 200,
                                                          manifest_dir[a])]
         /\ UNCHANGED lock_table
    ELSE /\ mreq' = [mreq EXCEPT ![r] = ManifestRequest("generating", a, behind, 0, 0,
                                                          NoManifest)]
         /\ lock_table' = [lock_table EXCEPT ![a] = r]

\* the request that is running the first pass of asset a, if any
Generating(a) == {q \in Requesters : mreq[q].pc = "generating" /\ mreq[q].asset = a}

\* GET /manifest/{assetId}/{filename} arrives
manifest_request(r, a) ==
    /\ mreq[r].pc = "idle"
    /\ IF LockFree(a)
       THEN Enter(r, a, Generating(a))
       ELSE /\ mreq' = [mreq EXCEPT ![r] = ManifestRequest("waiting", a, Generating(a),
                                                             0, 0, NoManifest)]
            /\ UNCHANGED lock_table
    /\ UNCHANGED <<manifest_dir, background>>
    /\ UNCHANGED <<serverVars, splitVars, concatVars, queueVars, parseVars>>

\* the holder released the lock: a waiter gets it and re-checks the cache directory
lock_acquired(r) ==
    /\ mreq[r].pc = "waiting"
    /\ LockFree(mreq[r].asset)
    /\ Enter(r, mreq[r].asset, mreq[r].behind)
    /\ UNCHANGED <<manifest_dir, background>>
    /\ UNCHANGED <<serverVars, splitVars, concatVars, queueVars, parseVars>>

\* the first pass of requester r ends: one encoder invocation over the first parts
generation_completes(r, outcome) ==
    /\ mreq[r].pc = "generating"
    /\ LET a == mreq[r].asset
           quick == TotalParts[a] > QUICK_START_PARTS
       IN  /\ lock_table' = [lock_table EXCEPT ![a] = Unlocked]
           /\ IF outcome = "ok"
              THEN /\ manifest_dir' = [manifest_dir EXCEPT ![a] = FirstPass(a)]
                   /\ mreq' = [mreq EXCEPT ![r] = ManifestRequest("done", a, @.behind,
                                                     @.invoked + 1, 200, FirstPass(a))]
                   /\ background' = [background EXCEPT
                                       ![a] = IF quick THEN "scheduled" ELSE @]
              ELSE /\ manifest_dir' = [manifest_dir EXCEPT ![a] = FailedPass(a)]
                   /\ mreq' = [mreq EXCEPT ![r] = ManifestRequest("done", a, @.behind,
                                                     @.invoked + 1, 500, NoManifest)]
                   /\ UNCHANGED background
    /\ UNCHANGED <<serverVars, splitVars, concatVars, queueVars, parseVars>>

\* the background extension task gets the asset's lock
extension_starts(a) ==
    /\ background[a] = "scheduled"
    /\ LockFree(a)
    /\ lock_table' = [lock_table EXCEPT ![a] = BackgroundTask]
    /\ background' = [background EXCEPT ![a] = "running"]
    /\ UNCHANGED <<manifest_dir, mreq>>
    /\ UNCHANGED <<serverVars, splitVars, concatVars, queueVars, parseVars>>

\* the background extension ends
extension_completes(a, outcome) ==
    /\ background[a] = "running"
    /\ lock_table' = [lock_table EXCEPT ![a] = Unlocked]
    /\ IF outcome = "ok"
       THEN /\ manifest_dir' = [manifest_dir EXCEPT ![a] = Extended(a, @)]
            /\ background' = [background EXCEPT ![a] = "succeeded"]
       ELSE /\ UNCHANGED manifest_dir
            /\ background' = [background EXCEPT ![a] = "failed"]
    /\ UNCHANGED mreq
    /\ UNCHANGED <<serverVars, splitVars, concatVars, queueVars, parseVars>>

NextManifest ==
    \/ \E r \in Requesters, a \in Assets : manifest_request(r, a)
    \/ \E r \in Requesters : lock_acquired(r)
    \/ \E r \in Requesters, outcome \in PassOutcomes : generation_completes(r, outcome)
    \/ \E a \in Assets : extension_starts(a)
    \/ \E a \in Assets, outcome \in PassOutcomes : extension_completes(a, outcome)

SpecManifest == Init /\ [][NextManifest]_vars

\* the state of an asset in the generator's state machine
Stage(a) ==
    IF lock_table[a] = BackgroundTask THEN "Extending"
    ELSE IF lock_table[a] # Unlocked THEN "Generating"
    ELSE IF manifest_dir[a].playlistKind = "none" THEN "Uninitialized"
    ELSE IF manifest_dir[a].playlistKind = "in-progress" THEN "Ready (in-progress)"
    ELSE "Ready (finalized)"

StageRank(a) ==
    CASE Stage(a) = "Uninitialized" -> 0
      [] Stage(a) = "Generating" -> 1
      [] Stage(a) = "Ready (in-progress)" -> 2
      [] Stage(a) = "Extending" -> 3
      [] Stage(a) = "Ready (finalized)" -> 4

----------------------------------------------------------------------------
(* Claims about the adaptive manifest generator *)

\* requests h and w asked for the same asset, w arrived while h was running the asset's
\* first pass, and both have been answered
ConcurrentPair(h, w) ==
    /\ h # w
    /\ mreq[h].pc = "done"
    /\ mreq[w].pc = "done"
    /\ mreq[h].asset = mreq[w].asset
    /\ h \in mreq[w].behind

IsPrefix(s, t) == Len(s) <= Len(t) /\ SubSeq(t, 1, Len(s)) = s

\* the requests whose own first pass of asset a succeeded
SuccessfulPasses(a) ==
    {r \in Requesters : mreq[r].asset = a /\ mreq[r].invoked > 0 /\ mreq[r].status = 200}

\* C21 as stated: two requests for the same uncached asset that overlap cause exactly one
\* encoder invocation between them, and both get the same successful answer.
C21_ExactlyOnePassForTwoRequests ==
    \A h, w \in Requesters :
        ConcurrentPair(h, w) =>
            /\ mreq[h].invoked + mreq[w].invoked = 1
            /\ mreq[h].status = 200
            /\ mreq[w].status = 200
            /\ mreq[w].body = mreq[h].body

\* C21 as amended: an asset never gets more than one successful first pass; a request that
\* arrives during the holder's pass waits, and when that pass succeeds it invokes no
\* encoder and is answered from the cache directory with a playlist that starts with the
\* holder's segments; when the pass fails the waiter's answer is not the holder's.
C21_AtMostOneSuccessfulPass ==
    /\ \A a \in Assets : Cardinality(SuccessfulPasses(a)) <= 1
    /\ \A h, w \in Requesters :
          ConcurrentPair(h, w) /\ mreq[h].status = 200 =>
              /\ mreq[w].invoked = 0
              /\ mreq[w].status = 200
              /\ IsPrefix(mreq[h].body.segments, mreq[w].body.segments)

\* C21 witness: a waiter was answered from the directory the holder's pass filled
C21_Witness ==
    \E h, w \in Requesters :
        /\ ConcurrentPair(h, w)
        /\ mreq[h].status = 200
        /\ mreq[h].invoked = 1
        /\ mreq[w].invoked = 0
        /\ mreq[w].status = 200

\* the event loop runs a scheduled background extension, and the extension ends (the
\* encoder run has a wall-clock timeout)
SpecManifestFair ==
    /\ SpecManifest
    /\ \A a \in Assets : WF_vars(extension_starts(a))
    /\ \A a \in Assets : WF_vars(\E outcome \in PassOutcomes : extension_completes(a, outcome))

\* once the playlist of an asset is finalized, it stays finalized
FinalizedStays ==
    \A a \in Assets :
        manifest_dir[a].playlistKind = "finalized" => manifest_dir'[a].playlistKind = "finalized"

\* a playlist in progress lists the first QUICK_START_PARTS parts of an asset with more
\* parts, and a successful background extension leaves the playlist finalized with the
\* segments of all parts, numbered on from the first pass
QuickStartThenAllParts ==
    \A a \in Assets :
        /\ manifest_dir[a].playlistKind = "in-progress" =>
              /\ TotalParts[a] > QUICK_START_PARTS
              /\ manifest_dir[a].segments = Numbered(0, QUICK_START_PARTS)
        /\ background[a] = "succeeded" =>
              /\ manifest_dir[a].playlistKind = "finalized"
              /\ manifest_dir[a].segments = Numbered(0, TotalParts[a])
              /\ manifest_dir[a].partsConsumed = TotalParts[a]

\* a playlist in progress is finalized in the end, unless the background extension fails
EventuallyFinalized ==
    \A a \in Assets :
        manifest_dir[a].playlistKind = "in-progress"
            ~> (manifest_dir[a].playlistKind = "finalized" \/ background[a] = "failed")

\* a pass that fails puts the asset back where the pass began
FailedPassStep(a) ==
    \/ /\ Stage(a) = "Generating"
       /\ Stage(a)' = "Uninitialized"
       /\ \E r \in Requesters : mreq[r].pc = "generating" /\ mreq'[r].status = 500
    \/ /\ Stage(a) = "Extending"
       /\ Stage(a)' = "Ready (in-progress)"
       /\ background'[a] = "failed"

\* C22 as stated: the state of every asset only moves forward along Uninitialized,
\* Generating, Ready (in-progress), Extending, Ready (finalized); a finalized playlist
\* never becomes in-progress again; the in-progress playlist of an asset with more than
\* K parts is finalized with the segments of all parts when the extension succeeds.
C22_StateOnlyMovesForward ==
    /\ [][(\A a \in Assets : StageRank(a)' >= StageRank(a)) /\ FinalizedStays]_vars
    /\ []QuickStartThenAllParts
    /\ EventuallyFinalized

\* C22 as amended: the state of every asset moves forward along the five states except
\* when a pass fails, which puts the asset back where the pass began (Generating to
\* Uninitialized, Extending to Ready (in-progress)); the rest as stated.
C22_ForwardUnlessAPassFails ==
    /\ [][(\A a \in Assets : StageRank(a)' >= StageRank(a) \/ FailedPassStep(a))
          /\ FinalizedStays]_vars
    /\ []QuickStartThenAllParts
    /\ EventuallyFinalized

\* C22 witness: the eight-part asset went through quick start and extension
C22_Witness ==
    /\ background["film"] = "succeeded"
    /\ manifest_dir["film"].playlistKind = "finalized"
    /\ Len(manifest_dir["film"].segments) = 8
    /\ \E r \in Requesters : /\ mreq[r].asset = "film"
                             /\ mreq[r].status = 200
                             /\ mreq[r].body.playlistKind = "in-progress"

\* the first pass of requester r fails in this step
FirstPassFails(r) == mreq[r].pc = "generating" /\ mreq'[r].status = 500

\* the background extension of asset a fails in this step
ExtensionFails(a) == background[a] = "running" /\ background'[a] = "failed"

\* requester r gets the lock in this step and finds no playlist
FindsNoPlaylist(r) ==
    /\ mreq[r].pc \in {"idle", "waiting"}
    /\ mreq'[r].pc \in {"generating", "done"}
    /\ manifest_dir[mreq'[r].asset].playlistKind = "none"

\* C23: a first pass that fails releases the asset's lock and leaves no playlist and no
\* segment in the directory, so the request that gets the lock next finds no manifest and
\* runs the pass itself; a background extension that fails releases the lock and leaves
\* the quick-start playlist and segments as they were.
C23_FailedPassLeavesNothingToServe ==
    [][/\ \A r \in Requesters :
             FirstPassFails(r) =>
                 /\ lock_table'[mreq[r].asset] = Unlocked
                 /\ manifest_dir'[mreq[r].asset] = NoManifest
       /\ \A r \in Requesters :
             FindsNoPlaylist(r) =>
                 /\ mreq'[r].pc = "generating"
                 /\ lock_table'[mreq'[r].asset] = r
       /\ \A a \in Assets :
             ExtensionFails(a) =>
                 /\ lock_table'[a] = Unlocked
                 /\ manifest_dir'[a] = manifest_dir[a]
                 /\ manifest_dir[a] = FirstPass(a)]_vars

\* C23 witness: the first pass of the eight-part asset failed, a later request ran it
\* again, the extension failed and a third request was served the quick-start playlist
C23_Witness ==
    \E r1, r2, r3 \in Requesters :
        /\ mreq[r1].asset = "film" /\ mreq[r1].status = 500 /\ mreq[r1].invoked = 1
        /\ mreq[r2].asset = "film" /\ mreq[r2].status = 200 /\ mreq[r2].invoked = 1
        /\ background["film"] = "failed"
        /\ lock_table["film"] = Unlocked
        /\ mreq[r3].asset = "film" /\ mreq[r3].status = 200 /\ mreq[r3].invoked = 0
        /\ mreq[r3].body = FirstPass("film")

----------------------------------------------------------------------------
(* Claims about a client that goes away *)

\* C24: once the client of a /stream response has gone away while the body was being
\* sent, the handler reads nothing more from the upstream and the upstream response is
\* closed, what it logs is at most a debug line, and the response keeps the status it
\* was sent with (200 or 206, never a 5xx); the step in which the client goes away
\* changes nothing but the request's own upstream fetch.
C24_DisconnectStopsReadingQuietly ==
    [][\A c \in StreamCallers :
          /\ up[c].client = "gone" =>
                /\ up[c].state \in {"none", "closed"}
                /\ up[c].log \in {"none", "debug"}
                /\ pc[c] = "gone"
                /\ resp[c].status \in {200, 206}
                /\ up'[c] \in {up[c], NoFetch}
          /\ (up[c].client = "connected" /\ up'[c].client = "gone") =>
                /\ up'[c].sent = up[c].sent
                /\ resp' = resp
                /\ UNCHANGED <<clock, token, file_info_cache, hostCalls, requests,
                               insertOrder, req>>
                /\ UNCHANGED <<splitVars, concatVars, manifestVars, queueVars, parseVars>>]_vars

\* C24 witness: the client went away in the middle of a partial body, after one chunk
C24_Witness ==
    \E c \in StreamCallers :
        /\ up[c].client = "gone"
        /\ up[c].state = "closed"
        /\ resp[c].status = 206
        /\ up[c].sent > 0
        /\ up[c].left > 0

----------------------------------------------------------------------------
(* Claims about the re-encode slices of the segmenter *)

\* the tag is set in the source's video stream
HasTag(tag) == tag \notin {"", "N/A", "0:1"}

\* a re-encode command carries the geometry tags of the probed stream metadata: the
\* display aspect ratio as -aspect, a sample aspect ratio other than square in the scale
\* filter, the rotation as stream metadata
CarriesGeometry(cmd, meta) ==
    /\ HasTag(meta.display_aspect_ratio) => cmd.aspect = meta.display_aspect_ratio
    /\ (HasTag(meta.sample_aspect_ratio) /\ meta.sample_aspect_ratio \notin {"1:1", "1"})
          => cmd.vf = SCALE_SAR
    /\ HasTag(meta.rotate) => cmd.rotate = meta.rotate

\* the encoder run started in this step, NoCmd if none was
StartedRun ==
    IF Len(hist'.runs) = Len(hist.runs) + 1 THEN hist'.runs[Len(hist'.runs)].cmd ELSE NoCmd

\* C25: every re-encode slice split_video runs, requested with transcode=true or run as
\* the fallback after a failed copy, carries the display aspect ratio, the sample aspect
\* ratio and the rotation of the source whenever the probe of the source's stream
\* metadata found them.
C25_ReencodeCarriesSourceGeometry ==
    [][(StartedRun.codec = "libx264" /\ stack # <<>> /\ Top.stream_meta.present)
          => CarriesGeometry(StartedRun, Top.stream_meta)]_vars

----------------------------------------------------------------------------
(* parse_range_header as a function of its arguments *)

\* one call parse_range_header(range_header, file_size)
parse(range_header, file_size) ==
    /\ parsed = NoParse
    /\ parsed' = [range_header |-> range_header, file_size |-> file_size,
                  result |-> parse_range_header(range_header, file_size)]
    /\ UNCHANGED <<serverVars, splitVars, concatVars, manifestVars, queueVars>>

NextParse ==
    /\ parsed = NoParse
    /\ \E range_header \in HeaderStrings, file_size \in FileSizes :
           parse(range_header, file_size)

SpecParse == Init /\ [][NextParse]_vars

\* s is a run of one or more digits
IsDigits(s) == s # <<>> /\ \A k \in DOMAIN s : s[k] \in Digits

\* what follows `bytes=` in header h, <<"?">> when h does not start with it
AfterUnit(h) ==
    IF Len(h) >= Len(BYTES) /\ SubSeq(h, 1, Len(BYTES)) = BYTES
    THEN SubSeq(h, Len(BYTES) + 1, Len(h)) ELSE <<"?">>

\* C26: for every header and every size > 0 the result is None or a pair (start, end)
\* with 0 <= start <= end <= size - 1; `bytes=a-` with a < size gives (a, size - 1) and
\* `bytes=a-b` with a < size <= b gives (a, size - 1).
C26_RangeWithinFile ==
    parsed # NoParse =>
        LET size == parsed.file_size
            res == parsed.result
            t == AfterUnit(parsed.range_header)
        IN /\ \/ res = NoRange
              \/ /\ Len(res) = 2
                 /\ 0 <= res[1] /\ res[1] <= res[2] /\ res[2] <= size - 1
           /\ \A k \in DOMAIN t :
                 LET a == SubSeq(t, 1, k - 1)
                     b == SubSeq(t, k + 1, Len(t))
                 IN (t[k] = "-" /\ IsDigits(a) /\ ToInt(a) < size) =>
                        /\ b = <<>> => res = <<ToInt(a), size - 1>>
                        /\ (IsDigits(b) /\ size <= ToInt(b)) => res = <<ToInt(a), size - 1>>

\* C26 witness: `bytes=1-13` on a file of 12 bytes is cut to (1, 11)
C26_Witness ==
    /\ parsed.range_header = BYTES \o <<"1", "-", "1", "3">>
    /\ parsed.file_size = 12
    /\ parsed.result = <<1, 11>>

----------------------------------------------------------------------------
(* Claims about overlapping and failing resolves *)

\* the getFile request of caller c is answered ok in this step
ResolveSucceeds(c) == pc[c] = "getFile" /\ last'.caller = c /\ last'.what = "return"

\* the entry the resolve of caller c writes
OwnEntry(c) ==
    [url |-> FilePathOf(HandleOf(c)), size |-> FileSizeOf(HandleOf(c)), timestamp |-> now[c]]

\* C27: when the later of two overlapping resolves of one handle returns, the cache holds
\* an entry for the handle that is, whole, the entry one of the two wrote, and the caller
\* gets the url and the size the host gave.
C27_OverlappingResolvesLeaveOneWholeEntry ==
    [][\A c \in Callers :
          (ResolveSucceeds(c) /\ overlap[c] # NoEntry) =>
              /\ file_info_cache'[HandleOf(c)] \in {OwnEntry(c), overlap[c]}
              /\ last'.url = FilePathOf(HandleOf(c))
              /\ last'.size = FileSizeOf(HandleOf(c))]_vars

\* C28: a resolve that raises (empty handle, no bot token, getFile answering not found
\* or too big, a network error) leaves the cache as it was: no entry is added, replaced
\* or removed, and an expired entry of the handle is still there, still expired.
C28_FailedResolveLeavesCache ==
    [][last'.what = "raise" => file_info_cache' = file_info_cache]_vars

\* C28 witness: getFile failed for a handle whose entry had expired, and the entry is
\* still in the cache
C28_Witness ==
    /\ last.what = "raise"
    /\ last.calls = 1
    /\ last.stale
    /\ file_info_cache[last.file_id] # NoEntry
    /\ ~IsFresh(file_info_cache[last.file_id], clock)

----------------------------------------------------------------------------
(* The download queue: QueueManager.  Every method runs without suspending: *)
(* the queues are unbounded, so put() never waits, and get() is called only *)
(* on a queue that is not empty.  A call that returns None or False at once *)
(* changes nothing and is left out.                                         *)

\* self.queues[user_id], <<>> when add_task has to create it
QueueOf(user_id) == IF queues[user_id] = NoQueue THEN <<>> ELSE queues[user_id]

\* async def add_task(self, task): a new DownloadTask, its id not used before
add_task(task_id) ==
    LET user_id == UserOf[task_id] IN
    /\ tasks[task_id] = NoTask
    /\ Len(QueueOf(user_id)) < MaxQueue
    /\ tasks' = [tasks EXCEPT ![task_id] = DownloadTask(task_id, user_id, TaskStatus.QUEUED, 0)]
    /\ queues' = [queues EXCEPT ![user_id] = Append(QueueOf(user_id), task_id)]
    /\ UNCHANGED <<running_tasks, qhist>>
    /\ UNCHANGED <<serverVars, splitVars, concatVars, manifestVars, parseVars>>

\* async def get_next_task(self, user_id), when it returns a task
get_next_task(user_id) ==
    /\ queues[user_id] # NoQueue
    /\ queues[user_id] # <<>>
    /\ LET task_id == Head(queues[user_id]) IN
       /\ queues' = [queues EXCEPT ![user_id] = Tail(@)]
       /\ tasks' = [tasks EXCEPT ![task_id].status = TaskStatus.RUNNING]
       /\ running_tasks' = [running_tasks EXCEPT ![user_id] = task_id]
    /\ UNCHANGED qhist
    /\ UNCHANGED <<serverVars, splitVars, concatVars, manifestVars, parseVars>>

\* running_tasks after `if self.running_tasks.get(task.user_id) == task_id: ... = None`
Cleared(task) ==
    [running_tasks EXCEPT ![task.user_id] = IF @ = task.task_id THEN NoTaskId ELSE @]

\* async def complete_task(self, task_id, success, error)
complete_task(task_id, success) ==
    LET task == tasks[task_id] IN
    /\ task # NoTask
    /\ IF success
       THEN /\ tasks' = [tasks EXCEPT ![task_id].status = TaskStatus.COMPLETED]
            /\ UNCHANGED queues
       ELSE /\ task.attempts < MaxAttemptsSeen
            /\ IF task.attempts + 1 >= max_attempts
               THEN /\ tasks' = [tasks EXCEPT ![task_id].attempts = @ + 1,
                                              ![task_id].status = TaskStatus.FAILED]
                    /\ UNCHANGED queues
               ELSE /\ Len(queues[task.user_id]) < MaxQueue
                    /\ tasks' = [tasks EXCEPT ![task_id].attempts = @ + 1,
                                              ![task_id].status = TaskStatus.QUEUED]
                    /\ queues' = [queues EXCEPT ![task.user_id] = Append(@, task_id)]
    /\ running_tasks' = Cleared(task)
    /\ UNCHANGED qhist
    /\ UNCHANGED <<serverVars, splitVars, concatVars, manifestVars, parseVars>>

\* async def cancel_task(self, task_id)
cancel_task(task_id) ==
    LET task == tasks[task_id] IN
    /\ task # NoTask
    /\ tasks' = [tasks EXCEPT ![task_id].status = TaskStatus.CANCELLED]
    /\ running_tasks' = Cleared(task)
    /\ qhist' = [qhist EXCEPT !.cancelled = @ \cup {task_id}]
    /\ UNCHANGED queues
    /\ UNCHANGED <<serverVars, splitVars, concatVars, manifestVars, parseVars>>

\* async def pause_task(self, task_id), when it returns True
pause_task(task_id) ==
    /\ tasks[task_id] # NoTask
    /\ tasks[task_id].status = TaskStatus.RUNNING
    /\ tasks' = [tasks EXCEPT ![task_id].status = TaskStatus.PAUSED]
    /\ UNCHANGED <<queues, running_tasks, qhist>>
    /\ UNCHANGED <<serverVars, splitVars, concatVars, manifestVars, parseVars>>

\* async def resume_task(self, task_id), when it returns True
resume_task(task_id) ==
    LET task == tasks[task_id] IN
    /\ task # NoTask
    /\ task.status = TaskStatus.PAUSED
    /\ Len(queues[task.user_id]) < MaxQueue
    /\ tasks' = [tasks EXCEPT ![task_id].status = TaskStatus.QUEUED]
    /\ queues' = [queues EXCEPT ![task.user_id] = Append(@, task_id)]
    /\ UNCHANGED <<running_tasks, qhist>>
    /\ UNCHANGED <<serverVars, splitVars, concatVars, manifestVars, parseVars>>

NextQueue ==
    \/ \E task_id \in TaskIds : add_task(task_id)
    \/ \E user_id \in Users : get_next_task(user_id)
    \/ \E task_id \in TaskIds, success \in BOOLEAN : complete_task(task_id, success)
    \/ \E task_id \in TaskIds : cancel_task(task_id)
    \/ \E task_id \in TaskIds : pause_task(task_id)
    \/ \E task_id \in TaskIds : resume_task(task_id)

SpecQueue == Init /\ [][NextQueue]_vars

----------------------------------------------------------------------------
(* Claims about the download queue *)

\* C29: once cancel_task has set a task to CANCELLED, get_next_task, complete_task,
\* pause_task and resume_task leave its status CANCELLED: it is never RUNNING again.
C29_CancelledStaysCancelled ==
    \A task_id \in qhist.cancelled : tasks[task_id].status = TaskStatus.CANCELLED

\* C30: the attempts of a task never exceed its max_attempts, and a task that has used
\* them up is FAILED and is not on its user's queue.
C30_AttemptsWithinMax ==
    \A task_id \in TaskIds :
        tasks[task_id] # NoTask =>
            /\ tasks[task_id].attempts <= max_attempts
            /\ tasks[task_id].attempts = max_attempts =>
                  /\ tasks[task_id].status = TaskStatus.FAILED
                  /\ \A k \in DOMAIN queues[tasks[task_id].user_id] :
                        queues[tasks[task_id].user_id][k] # task_id

====
